---------------------------- MODULE Spec2Model ----------------------------
(***************************************************************************)
(* A model of the trust chain engine of the Tanker SDK: the                *)
(* TrustchainVerifier (user/device blocks and group blocks), the           *)
(* GroupUpdater, and the key-publish planner of the DataProtector.         *)
(*                                                                         *)
(* Cryptography is abstract.  A key pair is named by a number.  A          *)
(* signature is named by the key that produced it (its "signer"), so       *)
(* tcrypto.verifySignature(data, signature, key) is  signer = key ; a      *)
(* tampered signature has the signer Forged.  A block hash is injective    *)
(* on blocks: every generated block gets a fresh hash, which is also the   *)
(* index the server assigned to it.                                        *)
(***************************************************************************)
EXTENDS Integers, Sequences, FiniteSets, TLC

(***************************************************************************)
(* Bounds of the model.                                                    *)
(***************************************************************************)
MaxIndex == 4           \* user blocks the server hands out (Spec)
MaxUnverified == 3      \* entries queued in the unverified store at once
MaxApply == 2           \* applications of one block that are followed
MaxGroupBlocks == 3     \* group blocks the server hands out (SpecGroup)
MaxSharedBlocks == 2    \* group blocks the server hands out (SpecShare)
MaxResources == 1     \* resources encrypted (SpecShare, SpecPublish)
MaxStored == 2        \* resources whose key an earlier session cached (SpecPublish)
MaxDevices == 3       \* devices the user creates (SpecTanker)
EncryptionSize == 2   \* bytes of a clear chunk of a stream (SpecStream)
BlockSize == 3        \* bytes of a block the decryptor hands out (SpecStream)
MaxWrite == 3         \* bytes of one write to the encryptor (SpecStream)
MaxInput == 5         \* bytes written to one encryptor (SpecStream)
MaxListed == 2        \* entries of a list of keys in a payload (SpecCodec)
MaxBlockIndex == 300  \* the highest index of a serialized block (SpecCodec)
LongPayload == 130    \* bytes of a payload whose length takes two bytes (SpecCodec)
MaxAuthored == 2      \* blocks handed out after those the session starts with (SpecAuthors)
\* the sizes of the crypto library, scaled down (SpecCodec)
HashSize == 2                       \* tcrypto.HASH_SIZE
SignatureSize == 5                  \* tcrypto.SIGNATURE_SIZE
SignaturePublicKeySize == 2         \* tcrypto.SIGNATURE_PUBLIC_KEY_SIZE
EncryptionPublicKeySize == 3        \* tcrypto.ENCRYPTION_PUBLIC_KEY_SIZE
MacSize == 1                        \* tcrypto.MAC_SIZE
SymmetricKeySize == 2               \* tcrypto.SYMMETRIC_KEY_SIZE
XChaChaIvSize == 2                  \* tcrypto.XCHACHA_IV_SIZE
SealedKeySize == 4                  \* tcrypto.SEALED_KEY_SIZE
SealedEncryptionPrivateKeySize == 4 \* tcrypto.SEALED_ENCRYPTION_PRIVATE_KEY_SIZE
SealedSignaturePrivateKeySize == 6  \* tcrypto.SEALED_SIGNATURE_PRIVATE_KEY_SIZE

(***************************************************************************)
(* Program constants.                                                      *)
(***************************************************************************)
\* Number.MAX_SAFE_INTEGER: "not revoked".  Any number above every index.
MAX_SAFE_INTEGER == 2147483647

\* the most members a group block can carry
MAX_GROUP_SIZE == 1000

UserIds == {1, 2}
Keys == {1, 2}
GroupIds == {1, 2}      \* a group id is the group's public signature key
EncryptionKeys == {1, 2}
NoKey == 0
FirstKey == 1
RootAuthor == 0         \* entry.author of a first device: the trustchain id
TrustchainKey == 0      \* the root block's public_signature_key
Forged == -1            \* signer of a signature that verifies under no key
Null == 0

VARIABLES
    userStore,          \* UserStore: user id -> [devices, userPublicKeys]
    unverifiedUsers,    \* UnverifiedStore: queued device creations/revocations
    nextIndex,          \* the index (and hash) of the next block
    blocks,             \* hash -> the block the server handed out under it
    userLog,            \* the user entries the verifier call of the last step applied
    applyCount,         \* hash -> how many times the block was applied to the user store
    lastResult,         \* [op, code, failed]: outcome of the verifier call of the last step
    groupStore,         \* GroupStore: group id -> group record
    unverifiedGroups,   \* UnverifiedStore: queued group creations/additions
    groupLog,           \* group id -> the group blocks applied to the group, in order
    claimed,            \* the keystore holds the keys of the provisional identity
    groupAttempt,       \* [failed, code, before]: the group block that failed in the last step
    sentBlocks,         \* the key publish blocks the last call sent
    sentBatches,        \* how many times the last call called client.sendKeyPublishBlocks
    resourceKeys,       \* ResourceStore: resource id -> key, NoKey when not cached
    shareResult,        \* the last encryptAndShareData call: its options and outcome
    nextResource,       \* the id of the next resource
    verifyLock,         \* the caller holding TrustchainVerifier._verifyLock, or Null
    callPc,             \* caller -> where it is in its call of the verifier
    callOp,             \* caller -> the entry point it called
    callEntry,          \* caller -> the block it handed to the entry point
    callUser,           \* caller -> the user it read with userStore.findUser
    session,            \* Tanker -> the status of its _session, "none" without one
    storage,            \* Tanker -> the state of the local storage of its session
    device,             \* Tanker -> the device its local storage holds, Null for none
    registered,         \* the user has registered its identity
    nextDevice,         \* the id of the next device of the user
    revokedDevices,     \* the devices a verified revocation block names
    nukePc,             \* Tanker -> the device whose _nuke awaits session.nuke(), or Null
    nukeCount,          \* device -> how many times its local storage was wiped
    deviceRevokedEvents,\* device -> how many 'deviceRevoked' events its Tanker raised
    tankerCall,         \* the last call on a Tanker: [tanker, op, status, outcome, usedSession]
    startPc,            \* Tanker -> where its start() is: "idle", "init" (awaiting Session.init),
                        \* "init_stopped" (awaiting Session.init, stop() called since)
    streamEncryptor,    \* StreamEncryptor: [buffer, index, ended]
    encryptedStream,    \* the encrypted chunks the encryptor has pushed, in order
    streamDecryptor,    \* StreamDecryptor: [keyPair, index, outputBuffer, read, ended, failed]
    clearWritten,       \* the bytes written to the encryptor so far
    clearOutput,        \* the blocks the decryptor has handed to onData, in order
    groupCall,          \* the last call of the GroupManager: its arguments, its outcome and
                        \* the calls it made of the user accessor, the client and the trustchain
    codec,              \* the last block or payload the codec was given, and what it made of it
    keyPublishCall,     \* the last call of verifyKeyPublishes: the entries it was given and
                        \* those it verified, each with the author device it found
    resourceTable,      \* the table resource_keys: resource id -> record, or NoRecord
    saveCall,           \* caller -> where its saveResourceKey is, and its arguments
    storedFirst,        \* resource id -> the key of the first record put under it
    tankerSession,      \* the _session of the Tanker instance: a session, or 0
    sessions,           \* session -> [state, status] of every session Session.init was asked for
    statusChanges,      \* the statusChange events emitted: the payload, and get status then
    localDevice,        \* whether the local storage of the instance holds a device
    registerPc,         \* the session registerIdentity awaits createUser of, or 0
    callbackDecryptor,  \* StreamDecryptor: [keyPair, index, outputBuffer, offset, pc, closed]
    onDataCalls,        \* the calls of onData made, in order: [data, done]
    onEndCalls,         \* the calls of onEnd made: how many calls of onData were running
    clearDecrypted,     \* the clear bytes of the chunks written to the decryptor
    encryptorInput,     \* the input stream of a StreamEncryptor: what its writable side
                        \* holds (queue, length, needDrain, ending, finished, afterWrites)
                        \* and what its readable side holds (buffer, readable, ended)
    writePromises,      \* the promises write() has returned, in order: resolved or waiting
    closeCall,          \* where close() is: "none", "awaiting", "resolved"
    deliveredBytes,     \* the clear bytes of the chunks handed to onData
    outputEnded,        \* whether the output stream has ended
    bytesWritten,       \* the clear bytes written to the encryptor
    unlockMethods,      \* localUser.unlockMethods: the types of the methods registered
    unlockCall,         \* caller -> where its registerUnlock is, its arguments and whether
                        \* it generated an unlock key block
    unlockClient        \* how many times the client was asked to sendBlock,
                        \* createUnlockKey and updateUnlockKey

userVars == <<userStore, unverifiedUsers, nextIndex, blocks, userLog, applyCount, lastResult>>

groupVars == <<groupStore, unverifiedGroups, groupLog, claimed, groupAttempt>>

shareVars == <<sentBlocks, sentBatches, resourceKeys, shareResult, nextResource>>

lockVars == <<verifyLock, callPc, callOp, callEntry, callUser>>

tankerVars ==
    <<session, storage, device, registered, nextDevice, revokedDevices, nukePc,
      nukeCount, deviceRevokedEvents, tankerCall, startPc>>

streamVars == <<streamEncryptor, encryptedStream, streamDecryptor, clearWritten, clearOutput>>

manageVars == <<groupCall>>

codecVars == <<codec>>

resourceVars == <<resourceTable, saveCall, storedFirst>>

sessionVars == <<tankerSession, sessions, statusChanges, localDevice, registerPc>>

callbackVars == <<callbackDecryptor, onDataCalls, onEndCalls, clearDecrypted>>

backpressureVars ==
    <<encryptorInput, writePromises, closeCall, deliveredBytes, outputEnded, bytesWritten>>

unlockVars == <<unlockMethods, unlockCall, unlockClient>>

laterVars == <<resourceVars, sessionVars, callbackVars, backpressureVars, unlockVars>>

moreVars == <<keyPublishCall, laterVars>>

vars ==
    <<userVars, groupVars, shareVars, lockVars, tankerVars, streamVars, manageVars,
      codecVars, moreVars>>

(***************************************************************************)
(* tcrypto.verifySignature, utils.equalArray                               *)
(***************************************************************************)
verifySignature(signer, key) == signer = key

(***************************************************************************)
(* Natures (Blocks/payloads.js)                                            *)
(***************************************************************************)
isDeviceCreation(nature) == nature \in {"device_creation_v1", "device_creation_v3"}
isDeviceRevocation(nature) == nature \in {"device_revocation_v1", "device_revocation_v2"}

(***************************************************************************)
(* The user store.  A user that was never created has no device.           *)
(***************************************************************************)
NoUser == [devices |-> <<>>, userPublicKeys |-> <<>>]

IsNullUser(user) == Len(user.devices) = 0

getLastUserPublicKey(user) ==
    IF Len(user.userPublicKeys) = 0 THEN NoKey
    ELSE user.userPublicKeys[Len(user.userPublicKeys)].userPublicKey

DeviceIds(user) == {user.devices[i].deviceId : i \in 1..Len(user.devices)}

\* array-find: the first device of the user with this id
FindDeviceIn(user, deviceId) ==
    LET i == CHOOSE i \in 1..Len(user.devices) :
                 /\ user.devices[i].deviceId = deviceId
                 /\ \A j \in 1..(i - 1) : user.devices[j].deviceId # deviceId
    IN user.devices[i]

\* userStore.findDeviceToUser: the user id owning the device, or Null
findDeviceToUser(store, deviceId) ==
    IF \E u \in UserIds : deviceId \in DeviceIds(store[u])
    THEN CHOOSE u \in UserIds : deviceId \in DeviceIds(store[u])
    ELSE Null


(***************************************************************************)
(* UserStore.applyEntry: a device creation creates the user with its first *)
(* device (and its first user key, when the block carries one) or adds the *)
(* device to the user; a device revocation sets the target's revokedAt and, *)
(* when it carries user keys (v2), appends the new user public key.        *)
(***************************************************************************)
NewDevice(entry) ==
    [deviceId |-> entry.hash,
     devicePublicSignatureKey |-> entry.public_signature_key,
     isServerDevice |-> entry.is_server_device,
     createdAt |-> entry.index,
     revokedAt |-> MAX_SAFE_INTEGER]

ApplyDeviceCreation(user, entry) ==
    IF IsNullUser(user)
    THEN [devices |-> <<NewDevice(entry)>>,
          userPublicKeys |->
              IF entry.user_key # NoKey
              THEN <<[userPublicKey |-> entry.user_key, index |-> entry.index]>>
              ELSE <<>>]
    ELSE IF entry.hash \in DeviceIds(user)
    THEN user
    ELSE [user EXCEPT !.devices = Append(@, NewDevice(entry))]

ApplyDeviceRevocation(user, entry) ==
    [devices |->
        [i \in 1..Len(user.devices) |->
            IF user.devices[i].deviceId = entry.device_id
            THEN [user.devices[i] EXCEPT !.revokedAt = entry.index]
            ELSE user.devices[i]],
     userPublicKeys |->
        IF entry.has_user_keys
        THEN Append(user.userPublicKeys,
                    [userPublicKey |-> entry.new_key, index |-> entry.index])
        ELSE user.userPublicKeys]

applyEntry(store, entry) ==
    IF isDeviceCreation(entry.nature)
    THEN [store EXCEPT ![entry.user_id] = ApplyDeviceCreation(@, entry)]
    ELSE [store EXCEPT ![entry.user_id] = ApplyDeviceRevocation(@, entry)]

RECURSIVE applyEntries(_, _)
applyEntries(store, entries) ==
    IF Len(entries) = 0 THEN store
    ELSE applyEntries(applyEntry(store, Head(entries)), Tail(entries))

(***************************************************************************)
(* TrustchainVerifier: device creation                                     *)
(***************************************************************************)
\* This is only called at user creation, when the device's author is the
\* trustchain.
verifyUserCreationEntry(entry, user) ==
    IF IsNullUser(user) THEN "ok"
    ELSE IF entry.hash \notin DeviceIds(user) THEN "forbidden"
    ELSE "ok"

NoDevice ==
    [deviceId |-> Null, devicePublicSignatureKey |-> Forged, isServerDevice |-> FALSE,
     createdAt |-> 0, revokedAt |-> MAX_SAFE_INTEGER]

\* authorDevice = NoDevice when the author is the trustchain
verifyDeviceCreationEntry(entry, authorUserId, authorDevice, authorKey, user) ==
    LET userPublicKey == getLastUserPublicKey(user) IN
    IF entry.last_reset # Null THEN "invalid_last_reset"
    ELSE IF userPublicKey # NoKey /\ entry.nature # "device_creation_v3"
    THEN "forbidden"
    ELSE IF ~verifySignature(entry.delegation_signer, authorKey)
    THEN "invalid_delegation_signature"
    ELSE IF ~verifySignature(entry.signer, entry.ephemeral_public_signature_key)
    THEN "invalid_signature"
    ELSE IF authorDevice.deviceId # Null
    THEN IF /\ entry.nature = "device_creation_v3"
            /\ userPublicKey # NoKey
            /\ entry.user_key # NoKey
            /\ entry.user_key # userPublicKey
         THEN "invalid_public_user_key"
         ELSE IF entry.user_id # authorUserId THEN "forbidden"
         ELSE IF entry.is_server_device # authorDevice.isServerDevice
         THEN "invalid_author_type"
         ELSE "ok"
    ELSE verifyUserCreationEntry(entry, user)

unlockedVerifySingleUserDeviceCreation(user, entry) ==
    IF entry.author = RootAuthor
    THEN verifyDeviceCreationEntry(entry, Null, NoDevice, TrustchainKey, user)
    ELSE IF IsNullUser(user) THEN "unknown_author"
    ELSE IF entry.author \notin DeviceIds(user) THEN "unknown_author"
    ELSE LET authorEntry == FindDeviceIn(user, entry.author) IN
         IF authorEntry.revokedAt < entry.index THEN "revoked_author_error"
         ELSE verifyDeviceCreationEntry(entry, entry.user_id, authorEntry,
                                        authorEntry.devicePublicSignatureKey, user)

(***************************************************************************)
(* TrustchainVerifier: device revocation                                   *)
(***************************************************************************)
ActiveDevices(targetUser, entry) ==
    {d \in DeviceIds(targetUser) :
        /\ FindDeviceIn(targetUser, d).revokedAt > entry.index
        /\ d # entry.device_id}

verifyDeviceRevocationEntry(entry, authorUserId, authorKey, targetUserId, targetUser) ==
    IF ~verifySignature(entry.signer, authorKey) THEN "invalid_signature"
    ELSE IF IsNullUser(targetUser) THEN "invalid_revoked_user"
    ELSE IF entry.device_id \notin DeviceIds(targetUser) THEN "invalid_revoked_device"
    ELSE IF FindDeviceIn(targetUser, entry.device_id).revokedAt < entry.index
    THEN "device_already_revoked"
    ELSE IF authorUserId # targetUserId THEN "forbidden"
    ELSE IF entry.nature = "device_revocation_v1"
    THEN IF Len(targetUser.userPublicKeys) # 0 THEN "invalid_revocation_version"
         ELSE "ok"
    ELSE IF ~entry.has_user_keys THEN "missing_user_keys"
    ELSE IF /\ getLastUserPublicKey(targetUser) # NoKey
            /\ entry.previous_key # getLastUserPublicKey(targetUser)
    THEN "invalid_previous_key"
    ELSE IF Cardinality(ActiveDevices(targetUser, entry)) # Len(entry.private_keys)
    THEN "invalid_new_key"
    ELSE IF \E d \in ActiveDevices(targetUser, entry) :
               \A i \in 1..Len(entry.private_keys) : entry.private_keys[i] # d
    THEN "invalid_new_key"
    ELSE "ok"

unlockedVerifySingleUserDeviceRevocation(store, targetUser, entry) ==
    LET authorUserId == findDeviceToUser(store, entry.author) IN
    IF authorUserId = Null THEN "unknown_author"
    ELSE LET authorDevice == FindDeviceIn(store[authorUserId], entry.author) IN
         verifyDeviceRevocationEntry(entry, authorUserId,
                                     authorDevice.devicePublicSignatureKey,
                                     entry.user_id, targetUser)

\* natureKind dispatch; the user is the one found for entry.user_id
unlockedVerifySingleUserEntry(store, user, entry) ==
    IF isDeviceCreation(entry.nature)
    THEN unlockedVerifySingleUserDeviceCreation(user, entry)
    ELSE unlockedVerifySingleUserDeviceRevocation(store, user, entry)


(***************************************************************************)
(* UnverifiedStore (user entries): entries are kept per user, by index.    *)
(***************************************************************************)
RECURSIVE SortByIndex(_)
SortByIndex(S) ==
    IF S = {} THEN <<>>
    ELSE LET m == CHOOSE e \in S : \A f \in S : e.index <= f.index
         IN <<m>> \o SortByIndex(S \ {m})

SeqToSet(seq) == {seq[i] : i \in 1..Len(seq)}

\* beforeIndex = MAX_SAFE_INTEGER when the caller gives none
findUnverifiedUserEntries(unverified, userIds, beforeIndex) ==
    SortByIndex({e \in unverified : e.user_id \in userIds /\ e.index < beforeIndex})

removeVerifiedUserEntries(unverified, entries) == unverified \ SeqToSet(entries)

(***************************************************************************)
(* A verifier run carries the stores and ends with code "ok" or with the   *)
(* code of the InvalidBlockError that was thrown, and the hash of the      *)
(* block that failed.                                                      *)
(***************************************************************************)
Run(store, unverified, log, code, failed) ==
    [store |-> store, unverified |-> unverified, log |-> log,
     code |-> code, failed |-> failed]

\* the loop of _unlockedProcessUser: verify one entry, apply it, go on
RECURSIVE ProcessUserLoop(_, _, _, _, _)
ProcessUserLoop(store, unverified, log, userId, entries) ==
    IF Len(entries) = 0 THEN Run(store, unverified, log, "ok", Null)
    ELSE LET entry == Head(entries)
             code == unlockedVerifySingleUserEntry(store, store[userId], entry)
         IN IF code # "ok" THEN Run(store, unverified, log, code, entry.hash)
            ELSE ProcessUserLoop(applyEntry(store, entry), unverified,
                                 Append(log, entry), userId, Tail(entries))

unlockedProcessUser(store, unverified, log, userId, beforeIndex) ==
    LET unverifiedEntries == findUnverifiedUserEntries(unverified, {userId}, beforeIndex)
        run == ProcessUserLoop(store, unverified, log, userId, unverifiedEntries)
    IN IF run.code # "ok" THEN run
       ELSE [run EXCEPT !.unverified = removeVerifiedUserEntries(@, unverifiedEntries)]

unlockedVerifyAndApplySingleUserEntry(store, unverified, log, entry) ==
    LET code == unlockedVerifySingleUserEntry(store, store[entry.user_id], entry)
    IN IF code # "ok" THEN Run(store, unverified, log, code, entry.hash)
       ELSE Run(applyEntry(store, entry),
                removeVerifiedUserEntries(unverified, <<entry>>),
                Append(log, entry), "ok", Null)

\* _throwingVerifyDeviceCreation and _throwingVerifyDeviceRevocation
throwingVerifyDevice(store, unverified, log, entry) ==
    LET run == unlockedProcessUser(store, unverified, log, entry.user_id, entry.index)
    IN IF run.code # "ok" THEN run
       ELSE unlockedVerifyAndApplySingleUserEntry(run.store, run.unverified, run.log, entry)

(***************************************************************************)
(* updateUserStore: the first queued entry of every user, then the second  *)
(* of every user, ...  A round verifies its entries, then applies them.    *)
(***************************************************************************)
\* nextDevicesToVerify.sort(by user_id), on entries that come sorted by index
RECURSIVE SortByUserId(_, _)
SortByUserId(entries, userIds) ==
    IF userIds = {} THEN <<>>
    ELSE LET u == CHOOSE u \in userIds : \A v \in userIds : u <= v
         IN SelectSeq(entries, LAMBDA e : e.user_id = u)
            \o SortByUserId(entries, userIds \ {u})

IsFirstOfUser(entries, i) == i = 1 \/ entries[i - 1].user_id # entries[i].user_id

RECURSIVE PickSeq(_, _, _)
PickSeq(entries, i, first) ==
    IF i > Len(entries) THEN <<>>
    ELSE (IF IsFirstOfUser(entries, i) = first THEN <<entries[i]>> ELSE <<>>)
         \o PickSeq(entries, i + 1, first)

takeOneDeviceOfEachUsers(nextDevicesToVerify) ==
    [firstDeviceOfEachUser |-> PickSeq(nextDevicesToVerify, 1, TRUE),
     remainingDevices |-> PickSeq(nextDevicesToVerify, 1, FALSE)]

\* the code of the first entry of the round that fails, with its hash
RECURSIVE VerifyRound(_, _)
VerifyRound(store, entries) ==
    IF Len(entries) = 0 THEN [code |-> "ok", failed |-> Null]
    ELSE LET entry == Head(entries)
             code == unlockedVerifySingleUserEntry(store, store[entry.user_id], entry)
         IN IF code # "ok" THEN [code |-> code, failed |-> entry.hash]
            ELSE VerifyRound(store, Tail(entries))

RECURSIVE UpdateUserStoreRounds(_, _, _, _)
UpdateUserStoreRounds(store, unverified, log, nextDevicesToVerify) ==
    LET taken == takeOneDeviceOfEachUsers(nextDevicesToVerify)
        currentDevicesToVerify == taken.firstDeviceOfEachUser
        verdict == VerifyRound(store, currentDevicesToVerify)
    IN IF verdict.code # "ok"
       THEN Run(store, unverified, log, verdict.code, verdict.failed)
       ELSE LET store2 == applyEntries(store, currentDevicesToVerify)
                unverified2 == removeVerifiedUserEntries(unverified, currentDevicesToVerify)
                log2 == log \o currentDevicesToVerify
            IN IF Len(taken.remainingDevices) > 0
               THEN UpdateUserStoreRounds(store2, unverified2, log2, taken.remainingDevices)
               ELSE Run(store2, unverified2, log2, "ok", Null)

updateUserStore(store, unverified, log, userIds) ==
    UpdateUserStoreRounds(store, unverified, log,
        SortByUserId(findUnverifiedUserEntries(unverified, userIds, MAX_SAFE_INTEGER),
                     userIds))


(***************************************************************************)
(* GroupStore.  A group is Unknown (no record), External (public keys, the *)
(* encrypted private signature key and the pending provisional slots) or   *)
(* Internal (the key pairs).  Of the pending slots only the one of the     *)
(* local user's provisional identity matters: pendingEncryptionKeys says   *)
(* whether the record holds it.                                            *)
(***************************************************************************)
NoGroup ==
    [state |-> "Unknown", publicSignatureKey |-> NoKey, publicEncryptionKey |-> NoKey,
     encryptedPrivateSignatureKey |-> FALSE, pendingEncryptionKeys |-> FALSE,
     lastGroupBlock |-> Null, index |-> 0]

FullGroup(publicSignatureKey, publicEncryptionKey, lastGroupBlock, index) ==
    [state |-> "Internal", publicSignatureKey |-> publicSignatureKey,
     publicEncryptionKey |-> publicEncryptionKey,
     encryptedPrivateSignatureKey |-> FALSE, pendingEncryptionKeys |-> FALSE,
     lastGroupBlock |-> lastGroupBlock, index |-> index]

ExternalGroup(publicSignatureKey, publicEncryptionKey, pending, lastGroupBlock, index) ==
    [state |-> "External", publicSignatureKey |-> publicSignatureKey,
     publicEncryptionKey |-> publicEncryptionKey,
     encryptedPrivateSignatureKey |-> TRUE, pendingEncryptionKeys |-> pending,
     lastGroupBlock |-> lastGroupBlock, index |-> index]

put(groups, groupId, group) == [groups EXCEPT ![groupId] = group]

putExternal(groups, groupId, group) == [groups EXCEPT ![groupId] = group]

\* the full group, or NoGroup
findFull(groups, groupId) ==
    IF groups[groupId].state = "Internal" THEN groups[groupId] ELSE NoGroup

\* the external view of the record: of a full group it has no encrypted
\* private signature key
findExternal(groups, groupId) ==
    IF groups[groupId].state = "Unknown" THEN NoGroup ELSE groups[groupId]

updateLastGroupBlock(groups, groupId, currentLastGroupBlock, currentLastGroupIndex) ==
    [groups EXCEPT ![groupId].lastGroupBlock = currentLastGroupBlock,
                   ![groupId].index = currentLastGroupIndex]

\* the slots of an addition are merged into the stored ones
updatePendingEncryptionKeys(groups, groupId, pending) ==
    [groups EXCEPT ![groupId].pendingEncryptionKeys = @ \/ pending]

findExternalsByPendingId(groups) ==
    {g \in DOMAIN groups :
        groups[g].state = "External" /\ groups[g].pendingEncryptionKeys}

(***************************************************************************)
(* GroupUpdater.  entry.for_me: the block has a slot sealed to a user key  *)
(* of the keystore.  entry.pending_for_me: it has a slot sealed to the     *)
(* local user's provisional identity, whose keys the keystore holds once   *)
(* the identity is claimed.                                                *)
(***************************************************************************)
isUserGroupCreation(nature) == nature = "user_group_creation"
isUserGroupAddition(nature) == nature = "user_group_addition"

findMyUserKeys(entry) == entry.for_me

findMyProvisionalKeys(entry, claimedIdentity) == claimedIdentity /\ entry.pending_for_me

\* whether the block yields the group's private encryption key
GroupPrivateEncryptionKey(entry, claimedIdentity) ==
    findMyUserKeys(entry) \/ findMyProvisionalKeys(entry, claimedIdentity)

applyUserGroupCreation(groups, claimedIdentity, entry) ==
    IF GroupPrivateEncryptionKey(entry, claimedIdentity)
    THEN put(groups, entry.public_signature_key,
             FullGroup(entry.public_signature_key, entry.public_encryption_key,
                       entry.hash, entry.index))
    ELSE putExternal(groups, entry.public_signature_key,
             ExternalGroup(entry.public_signature_key, entry.public_encryption_key,
                           entry.pending_for_me, entry.hash, entry.index))

\* _applyUserGroupAddition without its call of updateLastGroupBlock: what C7
\* rests on
applyUserGroupAdditionKeepingLastBlock(groups, claimedIdentity, entry) ==
    LET previousGroup == findExternal(groups, entry.group_id)
    IN IF ~previousGroup.encryptedPrivateSignatureKey THEN groups
       ELSE IF ~GroupPrivateEncryptionKey(entry, claimedIdentity)
       THEN updatePendingEncryptionKeys(groups, entry.group_id, entry.pending_for_me)
       ELSE put(groups, entry.group_id,
                FullGroup(previousGroup.publicSignatureKey,
                          previousGroup.publicEncryptionKey, entry.hash, entry.index))

\* _applyUserGroupAddition without the lookup of the local user's keys: what
\* C16 rests on
applyUserGroupAdditionWithoutUserKeys(groups, claimedIdentity, entry) ==
    LET previousGroup == findExternal(groups, entry.group_id)
        updated == updateLastGroupBlock(groups, entry.group_id, entry.hash, entry.index)
    IN IF ~previousGroup.encryptedPrivateSignatureKey THEN updated
       ELSE IF ~findMyProvisionalKeys(entry, claimedIdentity)
       THEN updatePendingEncryptionKeys(updated, entry.group_id, entry.pending_for_me)
       ELSE put(updated, entry.group_id,
                FullGroup(previousGroup.publicSignatureKey,
                          previousGroup.publicEncryptionKey, entry.hash, entry.index))

\* called on verified entries only: the group exists
applyUserGroupAddition(groups, claimedIdentity, entry) ==
    LET previousGroup == findExternal(groups, entry.group_id)
        updated == updateLastGroupBlock(groups, entry.group_id, entry.hash, entry.index)
    IN IF ~previousGroup.encryptedPrivateSignatureKey THEN updated
       ELSE IF ~GroupPrivateEncryptionKey(entry, claimedIdentity)
       THEN updatePendingEncryptionKeys(updated, entry.group_id, entry.pending_for_me)
       ELSE put(updated, entry.group_id,
                FullGroup(previousGroup.publicSignatureKey,
                          previousGroup.publicEncryptionKey, entry.hash, entry.index))

applyGroupEntry(groups, claimedIdentity, entry) ==
    IF isUserGroupCreation(entry.nature)
    THEN applyUserGroupCreation(groups, claimedIdentity, entry)
    ELSE applyUserGroupAddition(groups, claimedIdentity, entry)

\* bulkPut of the external groups that hold a slot of the claimed identity
applyProvisionalIdentityClaim(groups) ==
    [g \in DOMAIN groups |->
        IF g \in findExternalsByPendingId(groups)
        THEN FullGroup(groups[g].publicSignatureKey, groups[g].publicEncryptionKey,
                       groups[g].lastGroupBlock, groups[g].index)
        ELSE groups[g]]

(***************************************************************************)
(* TrustchainVerifier: group blocks                                        *)
(***************************************************************************)
\* _verifyUserGroupCreationEntry without the check of the stored group: what
\* C9 rests on
verifyUserGroupCreationEntryIgnoringGroup(entry, authorEntry, existingGroup) ==
    IF ~verifySignature(entry.signer, authorEntry.devicePublicSignatureKey)
    THEN "invalid_signature"
    ELSE IF ~verifySignature(entry.self_signer, entry.public_signature_key)
    THEN "invalid_self_signature"
    ELSE "ok"

\* _verifyUserGroupCreationEntry without the check of the self-signature:
\* what C10 rests on
verifyUserGroupCreationEntryIgnoringSelfSignature(entry, authorEntry, existingGroup) ==
    IF ~verifySignature(entry.signer, authorEntry.devicePublicSignatureKey)
    THEN "invalid_signature"
    ELSE IF /\ existingGroup.state # "Unknown"
            /\ existingGroup.publicEncryptionKey # entry.public_encryption_key
    THEN "group_already_exists"
    ELSE "ok"

verifyUserGroupCreationEntry(entry, authorEntry, existingGroup) ==
    IF ~verifySignature(entry.signer, authorEntry.devicePublicSignatureKey)
    THEN "invalid_signature"
    ELSE IF /\ existingGroup.state # "Unknown"
            /\ existingGroup.publicEncryptionKey # entry.public_encryption_key
    THEN "group_already_exists"
    ELSE IF ~verifySignature(entry.self_signer, entry.public_signature_key)
    THEN "invalid_self_signature"
    ELSE "ok"

\* _verifyUserGroupAdditionEntry without the check of previous_group_block:
\* what C6 rests on
verifyUserGroupAdditionEntryIgnoringPrevious(entry, authorEntry, currentGroup) ==
    IF ~verifySignature(entry.signer, authorEntry.devicePublicSignatureKey)
    THEN "invalid_signature"
    ELSE IF currentGroup.state = "Unknown" THEN "invalid_group_id"
    ELSE IF ~verifySignature(entry.self_signer, currentGroup.publicSignatureKey)
    THEN "invalid_self_signature"
    ELSE "ok"

verifyUserGroupAdditionEntry(entry, authorEntry, currentGroup) ==
    IF ~verifySignature(entry.signer, authorEntry.devicePublicSignatureKey)
    THEN "invalid_signature"
    ELSE IF currentGroup.state = "Unknown" THEN "invalid_group_id"
    ELSE IF entry.previous_group_block # currentGroup.lastGroupBlock
    THEN "invalid_previous_group_block"
    ELSE IF ~verifySignature(entry.self_signer, currentGroup.publicSignatureKey)
    THEN "invalid_self_signature"
    ELSE "ok"

unlockedVerifySingleUserGroupEntry(groups, entry, authorEntry) ==
    IF isUserGroupCreation(entry.nature)
    THEN verifyUserGroupCreationEntry(entry, authorEntry,
                                      findExternal(groups, entry.public_signature_key))
    ELSE verifyUserGroupAdditionEntry(entry, authorEntry,
                                      findExternal(groups, entry.group_id))

(***************************************************************************)
(* Group blocks are verified against their author's device, which may      *)
(* itself still be queued: _unlockedGetVerifiedAuthorsByHash first         *)
(* verifies the queued device creations that the blocks name as authors,   *)
(* ignoring the InvalidBlockErrors of that.                                *)
(***************************************************************************)
findUnverifiedDevicesByHash(unverified, hashes) ==
    SortByIndex({e \in unverified : isDeviceCreation(e.nature) /\ e.hash \in hashes})

RECURSIVE VerifyAuthors(_, _)
VerifyAuthors(run, unverifiedEntries) ==
    IF Len(unverifiedEntries) = 0 THEN run
    ELSE LET unverifiedEntry == Head(unverifiedEntries)
             processed == unlockedProcessUser(run.store, run.unverified, run.log,
                              unverifiedEntry.user_id, unverifiedEntry.index)
             applied == IF processed.code # "ok" THEN processed
                        ELSE unlockedVerifyAndApplySingleUserEntry(processed.store,
                                 processed.unverified, processed.log, unverifiedEntry)
         IN VerifyAuthors(Run(applied.store, applied.unverified, applied.log, "ok", Null),
                          Tail(unverifiedEntries))

\* the author device of the entry, revoked or not: what C31 rests on
foundAuthorIgnoringRevocation(store, entry) ==
    LET authorUserId == findDeviceToUser(store, entry.author) IN
    IF authorUserId = Null THEN NoDevice
    ELSE FindDeviceIn(store[authorUserId], entry.author)

\* the author device of the entry; NoDevice when it is missing or was
\* revoked before the entry
foundAuthor(store, entry) ==
    LET authorUserId == findDeviceToUser(store, entry.author) IN
    IF authorUserId = Null THEN NoDevice
    ELSE LET authorEntry == FindDeviceIn(store[authorUserId], entry.author)
         IN IF authorEntry.revokedAt < entry.index THEN NoDevice ELSE authorEntry

\* the run of the user side after the authors of the entries were verified
unlockedGetVerifiedAuthorsByHash(store, unverified, log, entries) ==
    VerifyAuthors(Run(store, unverified, log, "ok", Null),
        findUnverifiedDevicesByHash(unverified, {entries[i].author : i \in 1..Len(entries)}))

(***************************************************************************)
(* A run over group blocks carries both sides.  groupLog[g] lists the      *)
(* blocks applied to group g, each with the group record it was verified   *)
(* against; before is the group store as the failed block found it.        *)
(***************************************************************************)
GroupRun(user, groups, unverifiedG, glog, code, failed, before) ==
    [user |-> user, groups |-> groups, unverifiedGroups |-> unverifiedG,
     groupLog |-> glog, code |-> code, failed |-> failed, before |-> before]

\* an applied block: the group record and the author device it was verified
\* against
Applied(groups, entry, authorEntry) ==
    [entry |-> entry, found |-> findExternal(groups, entry.group_id),
     author |-> authorEntry]

\* a turn of the loop that applies the block before it verifies it: what C2
\* rests on
processUserGroupEntryApplyingFirst(run, claimedIdentity, entry) ==
    LET authorEntry == foundAuthor(run.user.store, entry)
        code == IF authorEntry.deviceId = Null THEN "author_not_found"
                ELSE unlockedVerifySingleUserGroupEntry(run.groups, entry, authorEntry)
        applied == applyGroupEntry(run.groups, claimedIdentity, entry)
    IN IF code # "ok"
       THEN [run EXCEPT !.groups = applied,
                        !.code = code, !.failed = entry, !.before = run.groups]
       ELSE [run EXCEPT
                !.groups = applied,
                !.unverifiedGroups = @ \ {entry},
                !.groupLog[entry.group_id] = Append(@, Applied(run.groups, entry, authorEntry))]

\* one turn of the loop of _unlockedProcessUserGroupEntries: find the author,
\* verify the block, apply it, take it off the queue
processUserGroupEntry(run, claimedIdentity, entry) ==
    LET authorEntry == foundAuthor(run.user.store, entry)
        code == IF authorEntry.deviceId = Null THEN "author_not_found"
                ELSE unlockedVerifySingleUserGroupEntry(run.groups, entry, authorEntry)
    IN IF code # "ok"
       THEN [run EXCEPT !.code = code, !.failed = entry, !.before = run.groups]
       ELSE [run EXCEPT
                !.groups = applyGroupEntry(@, claimedIdentity, entry),
                !.unverifiedGroups = @ \ {entry},
                !.groupLog[entry.group_id] = Append(@, Applied(run.groups, entry, authorEntry))]

RECURSIVE ProcessUserGroupLoop(_, _, _)
ProcessUserGroupLoop(run, claimedIdentity, entries) ==
    IF Len(entries) = 0 THEN run
    ELSE LET next == processUserGroupEntry(run, claimedIdentity, Head(entries))
         IN IF next.code # "ok" THEN next
            ELSE ProcessUserGroupLoop(next, claimedIdentity, Tail(entries))

unlockedProcessUserGroupEntries(run, claimedIdentity, unverifiedEntries) ==
    LET user == unlockedGetVerifiedAuthorsByHash(run.user.store, run.user.unverified,
                                                 run.user.log, unverifiedEntries)
    IN ProcessUserGroupLoop([run EXCEPT !.user = user], claimedIdentity, unverifiedEntries)

findUnverifiedUserGroup(unverifiedG, groupId) ==
    SortByIndex({e \in unverifiedG : e.group_id = groupId})

unlockedProcessUserGroup(run, claimedIdentity, groupId) ==
    LET unverifiedEntries == findUnverifiedUserGroup(run.unverifiedGroups, groupId)
    IN IF Len(unverifiedEntries) = 0 THEN run
       ELSE unlockedProcessUserGroupEntries(run, claimedIdentity, unverifiedEntries)

\* the InvalidBlockError of a group ends the call
RECURSIVE updateGroupStore(_, _, _)
updateGroupStore(run, claimedIdentity, groupIds) ==
    IF Len(groupIds) = 0 THEN run
    ELSE LET next == unlockedProcessUserGroup(run, claimedIdentity, Head(groupIds))
         IN IF next.code # "ok" THEN next
            ELSE updateGroupStore(next, claimedIdentity, Tail(groupIds))

(***************************************************************************)
(* The blocks the server can hand out.  A device's signature key pair is   *)
(* named by the device id; the ephemeral key pair of a device creation by  *)
(* EphemeralKey(hash).                                                     *)
(***************************************************************************)
EphemeralKey(hash) == 100 + hash

CreationTampers == {"none", "signature"}
DeviceCreationKinds == {<<"device_creation_v1", NoKey>>, <<"device_creation_v3", FirstKey>>}

DeviceCreationEntry(index, user, author, nature, userKey, tamper) ==
    [nature |-> nature, index |-> index, hash |-> index, author |-> author,
     user_id |-> user, last_reset |-> Null,
     delegation_signer |-> IF tamper = "delegation_signature" THEN Forged ELSE author,
     ephemeral_public_signature_key |-> EphemeralKey(index),
     signer |-> IF tamper = "signature" THEN Forged ELSE EphemeralKey(index),
     public_signature_key |-> index, user_key |-> userKey, is_server_device |-> FALSE,
     device_id |-> Null, has_user_keys |-> FALSE, new_key |-> NoKey,
     previous_key |-> NoKey, private_keys |-> <<>>]

DeviceRevocationEntry(index, user, author, target, nature, newKey, previousKey, privateKeys) ==
    [nature |-> nature, index |-> index, hash |-> index, author |-> author,
     user_id |-> user, last_reset |-> Null, delegation_signer |-> Forged,
     ephemeral_public_signature_key |-> NoKey,
     signer |-> author,
     public_signature_key |-> NoKey, user_key |-> NoKey, is_server_device |-> FALSE,
     device_id |-> target, has_user_keys |-> nature = "device_revocation_v2",
     new_key |-> newKey, previous_key |-> previousKey, private_keys |-> privateKeys]

NoEntry == DeviceCreationEntry(0, Null, RootAuthor, "none", NoKey, "none")

\* the user a device creation block announces its device for
deviceOwner ==
    [h \in 1..MaxIndex |->
        IF isDeviceCreation(blocks[h].nature) THEN blocks[h].user_id ELSE Null]

Created == {h \in 1..MaxIndex : deviceOwner[h] # Null}

CanReceive ==
    /\ nextIndex <= MaxIndex
    /\ Cardinality(unverifiedUsers) < MaxUnverified

GroupEntry(nature, index, author, groupId, publicEncryptionKey, previousGroupBlock, slot, tamper) ==
    [nature |-> nature, index |-> index, hash |-> index, author |-> author,
     signer |-> IF tamper = "signature" THEN Forged ELSE author,
     group_id |-> groupId, public_signature_key |-> groupId,
     public_encryption_key |-> publicEncryptionKey,
     previous_group_block |-> previousGroupBlock,
     self_signer |-> IF tamper = "self_signature" THEN Forged ELSE groupId,
     for_me |-> slot = "user", pending_for_me |-> slot = "provisional",
     tamper |-> tamper]

NoGroupEntry == GroupEntry("none", 0, RootAuthor, Null, NoKey, Null, "none", "none")

NoAttempt == [failed |-> NoGroupEntry, code |-> "ok", before |-> [g \in GroupIds |-> NoGroup]]

NoResult == [op |-> "none", code |-> "ok", failed |-> Null]

Result(op, run) == [op |-> op, code |-> run.code, failed |-> run.failed]

Occurrences(log, h) == Cardinality({i \in 1..Len(log) : log[i].hash = h})

\* a call of a verifier entry point on the user side: the stores become what
\* the call leaves behind, the applications it made are counted
UserCall(op, run) ==
    LET count == [h \in 1..MaxIndex |-> applyCount[h] + Occurrences(run.log, h)]
    IN /\ \A h \in 1..MaxIndex : count[h] <= MaxApply
       /\ userStore' = run.store
       /\ unverifiedUsers' = run.unverified
       /\ userLog' = run.log
       /\ applyCount' = count
       /\ lastResult' = Result(op, run)
       /\ groupAttempt' = NoAttempt
       /\ UNCHANGED <<groupStore, unverifiedGroups, groupLog, claimed>>
       /\ UNCHANGED <<shareVars, lockVars, tankerVars, streamVars, manageVars, codecVars, moreVars>>

InitGroupStore ==
    /\ groupStore = [g \in GroupIds |-> NoGroup]
    /\ unverifiedGroups = {}
    /\ groupLog = [g \in GroupIds |-> <<>>]
    /\ claimed = FALSE
    /\ groupAttempt = NoAttempt

Callers == {1, 2}

NoShare ==
    [op |-> "none", status |-> "none", resources |-> <<>>, resourceId |-> Null,
     key |-> NoKey, users |-> {}, provisionals |-> {}, groups |-> {},
     shareWithSelf |-> FALSE]

\* the resource ids: those of the session, then those of earlier sessions
ResourceIds == 1..(MaxResources + MaxStored)

StoredResources == ResourceIds \ (1..MaxResources)

\* the key an earlier session drew for a resource
StoredKey(r) == (r % 2) + 1

\* the resource store holds the keys of the resources in stored
InitShareWith(stored) ==
    /\ sentBlocks = <<>>
    /\ sentBatches = 0
    /\ resourceKeys = [r \in ResourceIds |-> IF r \in stored THEN StoredKey(r) ELSE NoKey]
    /\ shareResult = NoShare
    /\ nextResource = 1

InitShare == InitShareWith({})

InitLock ==
    /\ verifyLock = Null
    /\ callPc = [p \in Callers |-> "idle"]
    /\ callOp = [p \in Callers |-> "none"]
    /\ callEntry = [p \in Callers |-> NoEntry]
    /\ callUser = [p \in Callers |-> NoUser]

\* StreamEncryptor and StreamDecryptor after their constructors
InitStream ==
    /\ streamEncryptor = [buffer |-> <<>>, index |-> 0, ended |-> FALSE]
    /\ encryptedStream = <<>>
    /\ streamDecryptor = [keyPair |-> NoKey, index |-> 0, outputBuffer |-> <<>>,
                          read |-> 0, ended |-> FALSE, failed |-> FALSE]
    /\ clearWritten = <<>>
    /\ clearOutput = <<>>

\* no call of the GroupManager yet
NoGroupCall ==
    [op |-> "none", groupIds |-> <<>>, size |-> 0, status |-> "none",
     requested |-> <<>>, lookups |-> 0, recipientIds |-> <<>>,
     stored |-> {}, full |-> {}, fetched |-> <<>>, sent |-> <<>>, syncs |-> 0]

InitManage == groupCall = NoGroupCall

NoCodec == [op |-> "none"]

InitCodec == codec = NoCodec

NoKeyPublishCall == [entries |-> <<>>, verified |-> <<>>]

\* the components modelled further down, before their first call
\* the ids and the keys of the resources of the resource store
StoredResourceIds == {1, 2}
StoredKeys == {1, 2}

\* the calls of saveResourceKey the concurrent callers make
MaxSaves == 3

NoRecord == [b64EncryptedKey |-> [secret |-> 0, data |-> 0, additionalData |-> 0]]
NoSaveCall == [pc |-> "idle", resourceId |-> 0, key |-> 0]

InitResource ==
    /\ resourceTable = [r \in StoredResourceIds |-> NoRecord]
    /\ saveCall = [c \in Callers |-> NoSaveCall]
    /\ storedFirst = [r \in StoredResourceIds |-> 0]

\* the sessions of one instance, and the statusChange events kept
MaxSessions == 3
MaxStatusChanges == 4

NoSession == [state |-> "none", status |-> "STOPPED"]

InitSessions ==
    /\ tankerSession = 0
    /\ sessions = [s \in 1..MaxSessions |-> NoSession]
    /\ statusChanges = <<>>
    /\ localDevice = FALSE
    /\ registerPc = 0

\* the chunks written to one decryptor
MaxChunksWritten == 3

InitCallbacks ==
    /\ callbackDecryptor = [keyPair |-> NoKey, index |-> 0, outputBuffer |-> <<>>,
                            offset |-> 0, pc |-> "idle", closed |-> FALSE]
    /\ onDataCalls = <<>>
    /\ onEndCalls = <<>>
    /\ clearDecrypted = <<>>

\* the calls of write() on one encryptor
MaxWritesMade == 3

InitBackpressure ==
    /\ encryptorInput = [queue |-> <<>>, length |-> 0, needDrain |-> FALSE,
                         ending |-> FALSE, finished |-> FALSE, afterWrites |-> 0,
                         buffer |-> 0, readable |-> <<>>, ended |-> FALSE]
    /\ writePromises = <<>>
    /\ closeCall = "none"
    /\ deliveredBytes = 0
    /\ outputEnded = FALSE
    /\ bytesWritten = 0

\* the calls of registerUnlock of one user
MaxRegistrations == 3

NoUnlockCall == [pc |-> "idle", password |-> FALSE, email |-> FALSE, block |-> FALSE]

InitUnlock ==
    /\ unlockMethods = {}
    /\ unlockCall = [c \in Callers |-> NoUnlockCall]
    /\ unlockClient = [sendBlock |-> 0, createUnlockKey |-> 0, updateUnlockKey |-> 0]

InitMore ==
    /\ keyPublishCall = NoKeyPublishCall
    /\ InitResource
    /\ InitSessions
    /\ InitCallbacks
    /\ InitBackpressure
    /\ InitUnlock

Tankers == {1, 2}

NoCall ==
    [tanker |-> Null, op |-> "none", status |-> "STOPPED", outcome |-> "none",
     usedSession |-> FALSE]

\* two Tanker instances of one user, constructed and not started
InitTanker ==
    /\ session = [t \in Tankers |-> "none"]
    /\ storage = [t \in Tankers |-> "none"]
    /\ device = [t \in Tankers |-> Null]
    /\ registered = FALSE
    /\ nextDevice = 1
    /\ revokedDevices = {}
    /\ nukePc = [t \in Tankers |-> Null]
    /\ nukeCount = [d \in 1..MaxDevices |-> 0]
    /\ deviceRevokedEvents = [d \in 1..MaxDevices |-> 0]
    /\ tankerCall = NoCall
    /\ startPc = [t \in Tankers |-> "idle"]

\* the stores after construction
InitStores ==
    /\ userStore = [u \in UserIds |-> NoUser]
    /\ unverifiedUsers = {}
    /\ nextIndex = 1
    /\ blocks = [h \in 1..MaxIndex |-> NoEntry]
    /\ userLog = <<>>
    /\ applyCount = [h \in 1..MaxIndex |-> 0]
    /\ lastResult = NoResult
    /\ InitGroupStore
    /\ InitShare
    /\ InitLock
    /\ InitTanker
    /\ InitStream
    /\ InitManage
    /\ InitMore

Init == InitStores /\ InitCodec

\* the numbers of S in ascending order
RECURSIVE Ascending(_)
Ascending(S) ==
    IF S = {} THEN <<>>
    ELSE LET m == CHOOSE m \in S : \A n \in S : m <= n
         IN <<m>> \o Ascending(S \ {m})

\* the devices the server knows for the user of device t, t excluded
OthersOf(t) == {d \in Created : deviceOwner[d] = deviceOwner[t] /\ d # t}

\* the server hands out a user entry, which is queued in the unverified store
ReceiveUserEntry(entry) ==
    /\ unverifiedUsers' = unverifiedUsers \cup {entry}
    /\ blocks' = [blocks EXCEPT ![entry.index] = entry]
    /\ nextIndex' = nextIndex + 1
    /\ userLog' = <<>>
    /\ lastResult' = NoResult
    /\ UNCHANGED <<userStore, applyCount>>
    /\ UNCHANGED <<groupVars, shareVars, lockVars, tankerVars, streamVars, manageVars, codecVars, moreVars>>

\* a device creation block: the first device of a user (authored by the
\* trustchain), or a device added by one of the user's devices
RecvDeviceCreation ==
    /\ CanReceive
    /\ \E nk \in DeviceCreationKinds :
          \/ \E u \in UserIds, tamper \in CreationTampers :
                ReceiveUserEntry(DeviceCreationEntry(nextIndex, u, RootAuthor,
                                                     nk[1], nk[2], tamper))
          \/ \E a \in Created :
                ReceiveUserEntry(DeviceCreationEntry(nextIndex, deviceOwner[a], a,
                                                     nk[1], nk[2], "none"))

\* a device revocation block, queued under the user of the device it names
RecvDeviceRevocation ==
    /\ CanReceive
    /\ \E a \in Created, t \in Created :
          /\ deviceOwner[a] = deviceOwner[t]
          /\ \/ ReceiveUserEntry(DeviceRevocationEntry(nextIndex, deviceOwner[t], a, t,
                                     "device_revocation_v1", NoKey, NoKey, <<>>))
             \/ \E new \in Keys :
                   ReceiveUserEntry(DeviceRevocationEntry(nextIndex, deviceOwner[t], a, t,
                                        "device_revocation_v2", new, FirstKey,
                                        Ascending(OthersOf(t))))

\* verifyDeviceCreation(entry): an InvalidBlockError is caught, null returned
VerifyDeviceCreation ==
    \E entry \in unverifiedUsers :
        /\ isDeviceCreation(entry.nature)
        /\ \E run \in {throwingVerifyDevice(userStore, unverifiedUsers, <<>>, entry)} :
              UserCall("verifyDeviceCreation", run)
        /\ UNCHANGED <<nextIndex, blocks>>

VerifyDeviceRevocation ==
    \E entry \in unverifiedUsers :
        /\ isDeviceRevocation(entry.nature)
        /\ \E run \in {throwingVerifyDevice(userStore, unverifiedUsers, <<>>, entry)} :
              UserCall("verifyDeviceRevocation", run)
        /\ UNCHANGED <<nextIndex, blocks>>

\* updateUserStore(userIds): an InvalidBlockError rejects the call
UpdateUserStore ==
    \E userIds \in SUBSET UserIds :
        /\ userIds # {}
        /\ \E run \in {updateUserStore(userStore, unverifiedUsers, <<>>, userIds)} :
              UserCall("updateUserStore", run)
        /\ UNCHANGED <<nextIndex, blocks>>

Next ==
    \/ RecvDeviceCreation
    \/ RecvDeviceRevocation
    \/ VerifyDeviceCreation
    \/ VerifyDeviceRevocation
    \/ UpdateUserStore

Spec == Init /\ [][Next]_vars

(***************************************************************************)
(* The group side.  The session starts from a user store holding the       *)
(* verified first devices of two users; a second device of user 2 and a    *)
(* second "first device" of user 2 (which cannot verify) are still queued. *)
(***************************************************************************)
\* user u holds the user key u
FirstDevice(u) == DeviceCreationEntry(u, u, RootAuthor, "device_creation_v3", u, "none")
QueuedDevice == DeviceCreationEntry(3, 2, 2, "device_creation_v3", 2, "none")
QueuedBadDevice == DeviceCreationEntry(4, 2, RootAuthor, "device_creation_v3", 2, "none")

\* the session once the devices of applied are verified, with the queue given
SessionStartFrom(applied, queued, stored) ==
    /\ userStore = applyEntries([u \in UserIds |-> NoUser], applied)
    /\ unverifiedUsers = queued
    /\ nextIndex = MaxIndex + 1
    /\ blocks = [h \in 1..MaxIndex |->
                    IF h \in UserIds THEN FirstDevice(h)
                    ELSE IF \E e \in queued : e.index = h
                    THEN CHOOSE e \in queued : e.index = h
                    ELSE NoEntry]
    /\ userLog = <<>>
    /\ applyCount = [h \in 1..MaxIndex |->
                        IF \E i \in 1..Len(applied) : applied[i].hash = h THEN 1 ELSE 0]
    /\ lastResult = NoResult
    /\ InitGroupStore
    /\ InitShareWith(stored)
    /\ InitLock
    /\ InitTanker
    /\ InitStream
    /\ InitManage
    /\ InitMore
    /\ InitCodec

\* the session once the first devices are verified, with the queue given
SessionStartWith(queued, stored) ==
    SessionStartFrom(<<FirstDevice(1), FirstDevice(2)>>, queued, stored)

SessionStart(queued) == SessionStartWith(queued, {})

InitGroup == SessionStart({QueuedDevice, QueuedBadDevice})

\* the shapes of a group block: author (device 2 is verified, the other is
\* queued), tampering, recipient slot of the local user
AdditionShapes ==
    {<<2, "none", "none">>, <<2, "none", "user">>, <<2, "none", "provisional">>,
     <<2, "self_signature", "none">>}

CreationShapes ==
    AdditionShapes \cup {<<2, "signature", "none">>, <<QueuedDevice.hash, "none", "none">>}

PlainShape == <<2, "none", "none">>

\* the group whose blocks come in every shape; the blocks of the other groups
\* are plain
FirstGroup == CHOOSE g \in GroupIds : \A h \in GroupIds : g <= h

\* a creation announces the first encryption key in any shape, another key
\* plainly or under a forged author signature
CreationKinds(g) ==
    IF g = FirstGroup
    THEN {<<FirstKey, shape>> : shape \in CreationShapes}
            \cup {<<key, <<2, tamper, "none">> >> :
                     key \in EncryptionKeys \ {FirstKey}, tamper \in {"none", "signature"}}
    ELSE {<<FirstKey, PlainShape>>}

AdditionKinds(g) == IF g = FirstGroup THEN AdditionShapes ELSE {PlainShape}

CanReceiveGroupBlock == nextIndex <= MaxIndex + MaxGroupBlocks

ReceiveGroupEntry(entry) ==
    /\ unverifiedGroups' = unverifiedGroups \cup {entry}
    /\ nextIndex' = nextIndex + 1
    /\ userLog' = <<>>
    /\ lastResult' = NoResult
    /\ groupAttempt' = NoAttempt
    /\ UNCHANGED <<userStore, unverifiedUsers, blocks, applyCount>>
    /\ UNCHANGED <<groupStore, groupLog, claimed>>
    /\ UNCHANGED <<shareVars, lockVars, tankerVars, streamVars, manageVars, codecVars, moreVars>>

RecvUserGroupCreation ==
    /\ CanReceiveGroupBlock
    /\ \E g \in GroupIds : \E kind \in CreationKinds(g) :
          ReceiveGroupEntry(GroupEntry("user_group_creation", nextIndex, kind[2][1], g,
                                       kind[1], Null, kind[2][3], kind[2][2]))

\* the group blocks handed out so far for the group
GroupBlockHashes(g) ==
    {e.hash : e \in {f \in unverifiedGroups : f.group_id = g}}
       \cup {groupLog[g][i].entry.hash : i \in 1..Len(groupLog[g])}

RecvUserGroupAddition ==
    /\ CanReceiveGroupBlock
    /\ \E g \in GroupIds : \E shape \in AdditionKinds(g) :
          \E previous \in GroupBlockHashes(g) :
             ReceiveGroupEntry(GroupEntry("user_group_addition", nextIndex, shape[1], g,
                                          NoKey, previous, shape[3], shape[2]))

GroupIdLists == {<<1>>, <<2>>, <<1, 2>>, <<2, 1>>}

\* updateGroupStore(groupIds): an InvalidBlockError rejects the call
UpdateGroupStore ==
    \E groupIds \in GroupIdLists :
        \E run \in {updateGroupStore(
                       GroupRun(Run(userStore, unverifiedUsers, <<>>, "ok", Null),
                                groupStore, unverifiedGroups, groupLog,
                                "ok", NoGroupEntry, groupStore),
                       claimed, groupIds)} :
        LET count == [h \in 1..MaxIndex |-> applyCount[h] + Occurrences(run.user.log, h)]
        IN /\ \A h \in 1..MaxIndex : count[h] <= MaxApply
           /\ userStore' = run.user.store
           /\ unverifiedUsers' = run.user.unverified
           /\ userLog' = run.user.log
           /\ applyCount' = count
           /\ lastResult' = [op |-> "updateGroupStore", code |-> run.code,
                             failed |-> run.failed.hash]
           /\ groupStore' = run.groups
           /\ unverifiedGroups' = run.unverifiedGroups
           /\ groupLog' = run.groupLog
           /\ groupAttempt' = IF run.code = "ok" THEN NoAttempt
                              ELSE [failed |-> run.failed, code |-> run.code,
                                    before |-> run.before]
           /\ UNCHANGED <<nextIndex, blocks, claimed>>
           /\ UNCHANGED <<shareVars, lockVars, tankerVars, streamVars, manageVars, codecVars, moreVars>>

\* the local user claims the provisional identity: the keystore gets its
\* keys, GroupUpdater.applyProvisionalIdentityClaim promotes the groups
ClaimProvisionalIdentity ==
    /\ ~claimed
    /\ claimed' = TRUE
    /\ groupStore' = applyProvisionalIdentityClaim(groupStore)
    /\ userLog' = <<>>
    /\ lastResult' = NoResult
    /\ groupAttempt' = NoAttempt
    /\ UNCHANGED <<userStore, unverifiedUsers, nextIndex, blocks, applyCount>>
    /\ UNCHANGED <<unverifiedGroups, groupLog>>
    /\ UNCHANGED <<shareVars, lockVars, tankerVars, streamVars, manageVars, codecVars, moreVars>>

NextGroup ==
    \/ RecvUserGroupCreation
    \/ RecvUserGroupAddition
    \/ UpdateGroupStore
    \/ ClaimProvisionalIdentity
    \/ UpdateUserStore

SpecGroup == InitGroup /\ [][NextGroup]_vars

(***************************************************************************)
(* DataProtector.encryptAndShareData.  The local user is user Self; an     *)
(* identity is a user's (target "user") or a provisional one (target       *)
(* "email").  A key publish block names its nature, the public encryption  *)
(* key it is sealed to, the resource and the resource key.                 *)
(***************************************************************************)
Self == 1

UnknownUserId == CHOOSE n \in 1..(Cardinality(UserIds) + 1) : n \notin UserIds

UserIdentity(userId) == [target |-> "user", value |-> userId]

ProvisionalIdentity == [target |-> "email", value |-> Self]

SelfIdentity == UserIdentity(Self)

\* the public encryption key the server holds for a provisional identity
InviteeKey(identity) == identity.value

\* the device of the local user: the author of the blocks it generates
LocalDeviceId == FirstDevice(Self).hash

makeKeyPublishBlock(publicEncryptionKey, key, resourceId, nature) ==
    [nature |-> nature, to |-> publicEncryptionKey, resourceId |-> resourceId,
     key |-> key, author |-> LocalDeviceId]

makeInviteeKeyPublishBlock(invitee, key, resourceId) ==
    makeKeyPublishBlock(invitee, key, resourceId, "key_publish_to_provisional_user")

\* the recipient of the i-th turn of the two loops, the resource of that turn
OuterTurn(i, keyResourceIds) == ((i - 1) \div Len(keyResourceIds)) + 1

InnerTurn(i, keyResourceIds) == ((i - 1) % Len(keyResourceIds)) + 1

\* for each recipient key, for each resource: one block
makeKeyPublishBlocks(keyResourceIds, keys, nature) ==
    [i \in 1..(Len(keys) * Len(keyResourceIds)) |->
        makeKeyPublishBlock(keys[OuterTurn(i, keyResourceIds)],
                            keyResourceIds[InnerTurn(i, keyResourceIds)].key,
                            keyResourceIds[InnerTurn(i, keyResourceIds)].resourceId, nature)]

makeInviteeKeyPublishBlocks(keyResourceIds, invitees) ==
    [i \in 1..(Len(invitees) * Len(keyResourceIds)) |->
        makeInviteeKeyPublishBlock(invitees[OuterTurn(i, keyResourceIds)],
                                   keyResourceIds[InnerTurn(i, keyResourceIds)].key,
                                   keyResourceIds[InnerTurn(i, keyResourceIds)].resourceId)]

\* _publishKeys that sends the blocks of each kind of recipient on their own:
\* what C23 rests on
publishKeysBatchByKind(keyResourceIds, recipientUsers, recipientInvitees, recipientGroups) ==
    LET userKeys == [i \in 1..Len(recipientUsers) |-> getLastUserPublicKey(recipientUsers[i])]
    IN IF \E i \in 1..Len(userKeys) : userKeys[i] = NoKey
       THEN [status |-> "Error", batches |-> <<>>]
       ELSE [status |-> "ok",
             batches |->
                <<makeKeyPublishBlocks(keyResourceIds,
                      [i \in 1..Len(recipientGroups) |-> recipientGroups[i].publicEncryptionKey],
                      "key_publish_to_user_group"),
                  makeInviteeKeyPublishBlocks(keyResourceIds,
                      [i \in 1..Len(recipientInvitees) |-> InviteeKey(recipientInvitees[i])]),
                  makeKeyPublishBlocks(keyResourceIds, userKeys, "key_publish_to_user")>>]

\* the batches handed to client.sendKeyPublishBlocks: one, of all the blocks;
\* failed when a user has no user public key
publishKeys(keyResourceIds, recipientUsers, recipientInvitees, recipientGroups) ==
    LET groupBlocks ==
            makeKeyPublishBlocks(keyResourceIds,
                [i \in 1..Len(recipientGroups) |-> recipientGroups[i].publicEncryptionKey],
                "key_publish_to_user_group")
        inviteeBlocks ==
            makeInviteeKeyPublishBlocks(keyResourceIds,
                [i \in 1..Len(recipientInvitees) |-> InviteeKey(recipientInvitees[i])])
        userKeys == [i \in 1..Len(recipientUsers) |-> getLastUserPublicKey(recipientUsers[i])]
        userBlocks == makeKeyPublishBlocks(keyResourceIds, userKeys, "key_publish_to_user")
    IN IF \E i \in 1..Len(userKeys) : userKeys[i] = NoKey
       THEN [status |-> "Error", batches |-> <<>>]
       ELSE [status |-> "ok", batches |-> <<groupBlocks \o inviteeBlocks \o userBlocks>>]

splitProvisionalAndFullIdentities(identities) ==
    [fullUsers |-> SelectSeq(identities, LAMBDA elem : elem.target = "user"),
     preUsers |-> SelectSeq(identities, LAMBDA elem : elem.target # "user")]

handleShareWithSelf(identities, shareWithSelf) ==
    IF shareWithSelf /\ SelfIdentity \notin SeqToSet(identities)
    THEN Append(identities, SelfIdentity)
    ELSE identities

\* saveResourceKey that stores nothing: what C24 rests on
saveResourceKeyNowhere(keys, resourceId, key) == keys

\* ResourceStore.saveResourceKey: a stored key is never overwritten
saveResourceKey(keys, resourceId, key) ==
    IF keys[resourceId] # NoKey THEN keys ELSE [keys EXCEPT ![resourceId] = key]

\* GroupManager._fetchGroups, after the sync
fetchGroups(run, claimedIdentity, groupIds) ==
    IF Len(groupIds) > 0 THEN updateGroupStore(run, claimedIdentity, groupIds) ELSE run

\* the second loop of findGroups: a group still not found is left out
foundGroups(run, fetched, fullGroups, externalGroups) ==
    [run |-> fetched,
     externalGroups |-> externalGroups,
     groups |-> [i \in 1..Len(fullGroups) |-> findFull(run.groups, fullGroups[i])]
                \o SelectSeq([i \in 1..Len(externalGroups) |->
                                 findExternal(fetched.groups, externalGroups[i])],
                             LAMBDA group : group.state # "Unknown")]

\* the first loop of findGroups has told the full groups from the others
findSortedGroups(run, claimedIdentity, fullGroups, externalGroups) ==
    foundGroups(run, fetchGroups(run, claimedIdentity, externalGroups),
                fullGroups, externalGroups)

\* every group is fetched
findGroupsFetchingAll(run, claimedIdentity, groupIds) ==
    findSortedGroups(run, claimedIdentity, <<>>, groupIds)

\* GroupManager.findGroups: the full groups, then the groups found after the
\* others were fetched and verified
findGroups(run, claimedIdentity, groupIds) ==
    findSortedGroups(run, claimedIdentity,
        SelectSeq(groupIds, LAMBDA g : findFull(run.groups, g).state # "Unknown"),
        SelectSeq(groupIds, LAMBDA g : findFull(run.groups, g).state = "Unknown"))

\* UserAccessor._fetchUsers, after the sync
fetchUsers(run, userIds) ==
    updateUserStore(run.store, run.unverified, run.log, userIds \ {Self})

\* userStore.findUsers: the users the store holds
foundUsers(fetched, hashedUserIds) ==
    [run |-> fetched,
     userIds |-> SelectSeq(hashedUserIds,
                           LAMBDA id : id \in DOMAIN fetched.store
                                          /\ ~IsNullUser(fetched.store[id])),
     users |-> SelectSeq([i \in 1..Len(hashedUserIds) |->
                             IF hashedUserIds[i] \in DOMAIN fetched.store
                             THEN fetched.store[hashedUserIds[i]] ELSE NoUser],
                         LAMBDA user : ~IsNullUser(user))]

\* UserAccessor.findUsers
findUsers(run, hashedUserIds) ==
    foundUsers(fetchUsers(run, SeqToSet(hashedUserIds)), hashedUserIds)

\* the loop of getUsers: the requested ids no user found has
missingIds(fullUsers, userIds) ==
    SelectSeq(userIds, LAMBDA id : \A j \in 1..Len(fullUsers.userIds) :
                                      fullUsers.userIds[j] # id.value)

\* the end of getUsers: all the users, or RecipientsNotFound
allUsers(fullUsers, userIds) ==
    [run |-> fullUsers.run,
     users |-> fullUsers.users,
     userIds |-> fullUsers.userIds,
     status |-> IF fullUsers.run.code # "ok" THEN "InvalidBlockError"
                ELSE IF Len(fullUsers.users) = Len(userIds) THEN "ok"
                ELSE "RecipientsNotFound",
     missingIds |-> IF fullUsers.run.code # "ok" \/ Len(fullUsers.users) = Len(userIds)
                    THEN <<>>
                    ELSE missingIds(fullUsers, userIds)]

getUsers(run, publicIdentities) ==
    allUsers(findUsers(run, [i \in 1..Len(publicIdentities) |-> publicIdentities[i].value]),
             publicIdentities)

\* what a call leaves behind
Shared(user, group, keys, status, sent) ==
    [user |-> user, group |-> group, resourceKeys |-> keys, status |-> status,
     batches |-> sent]

\* _shareResources once the recipients are known
shareWithRecipients(groups, users, published, keys, saved) ==
    IF users.status # "ok"
    THEN Shared(users.run, groups.run, keys, users.status, <<>>)
    ELSE Shared(users.run, groups.run, saved, published.status, published.batches)

\* _shareResources once the groups are found
shareWithFoundGroups(groups, users, preUsers, keys, keyResourceIds, shareWithSelf) ==
    IF groups.run.code # "ok"
    THEN Shared(groups.run.user, groups.run, keys, "InvalidBlockError", <<>>)
    ELSE shareWithRecipients(groups, users,
             publishKeys(keyResourceIds, users.users, preUsers, groups.groups),
             keys,
             IF shareWithSelf
             THEN saveResourceKey(keys, keyResourceIds[1].resourceId, keyResourceIds[1].key)
             ELSE keys)

\* _shareResources once the identities are split
shareWithIdentities(groups, split, keys, keyResourceIds, shareWithSelf) ==
    shareWithFoundGroups(groups, getUsers(groups.run.user, split.fullUsers),
                         split.preUsers, keys, keyResourceIds, shareWithSelf)

\* _shareResources(keys, shareWithOptions, shareWithSelf): keys are the
\* resources of the call, the cache of resource keys is passed along
shareResources(run, claimedIdentity, keys, keyResourceIds, shareWithUsers, groupIds, shareWithSelf) ==
    shareWithIdentities(
        findGroups(run, claimedIdentity, groupIds),
        splitProvisionalAndFullIdentities(handleShareWithSelf(shareWithUsers, shareWithSelf)),
        keys, keyResourceIds, shareWithSelf)

(***************************************************************************)
(* Sharing sessions.  The server hands out creation blocks of the groups   *)
(* (group g announces the public encryption key g); the local user         *)
(* encrypts resources for users, provisional identities and groups.        *)
(***************************************************************************)
InitShareSession ==
    \E queued \in {{QueuedDevice}, {QueuedDevice, QueuedBadDevice}} : SessionStart(queued)

\* plain, with a slot for the local user, or with a forged self-signature
SharedCreationShapes == {PlainShape, <<2, "none", "user">>, <<2, "self_signature", "none">>}

SharedGroupKey(g) == g

RecvGroupCreationOf(groupIds, shapes) ==
    /\ nextIndex <= MaxIndex + MaxSharedBlocks
    /\ \E g \in groupIds : \E shape \in shapes :
          ReceiveGroupEntry(GroupEntry("user_group_creation", nextIndex, shape[1], g,
                                       SharedGroupKey(g), Null, shape[3], shape[2]))

RecvSharedGroupCreation == RecvGroupCreationOf(GroupIds, SharedCreationShapes)

Recipient == CHOOSE u \in UserIds : u # Self

AllIdentities ==
    <<ProvisionalIdentity, UserIdentity(Recipient), UserIdentity(UnknownUserId),
      SelfIdentity>>

ShareWithUsersLists ==
    {SelectSeq(AllIdentities, LAMBDA e : e \in S) : S \in SUBSET SeqToSet(AllIdentities)}

ShareWithGroupsLists == GroupIdLists \cup {<<>>}

RECURSIVE AllBlocks(_)
AllBlocks(batches) ==
    IF batches = <<>> THEN <<>> ELSE Head(batches) \o AllBlocks(Tail(batches))

\* a call of _shareResources by op, and what it leaves in the stores
CallShareResources(op, keyResourceIds, shareWithUsers, shareWithGroups, shareWithSelf) ==
    \E done \in {shareResources(
                    GroupRun(Run(userStore, unverifiedUsers, <<>>, "ok", Null),
                             groupStore, unverifiedGroups, groupLog,
                             "ok", NoGroupEntry, groupStore),
                    claimed, resourceKeys, keyResourceIds,
                    shareWithUsers, shareWithGroups, shareWithSelf)} :
        LET count == [h \in 1..MaxIndex |-> applyCount[h] + Occurrences(done.user.log, h)]
        IN /\ \A h \in 1..MaxIndex : count[h] <= MaxApply
           /\ userStore' = done.user.store
           /\ unverifiedUsers' = done.user.unverified
           /\ userLog' = done.user.log
           /\ applyCount' = count
           /\ lastResult' = [op |-> op,
                             code |-> IF done.group.code # "ok" THEN done.group.code
                                      ELSE done.user.code,
                             failed |-> IF done.group.code # "ok"
                                        THEN done.group.failed.hash
                                        ELSE done.user.failed]
           /\ groupStore' = done.group.groups
           /\ unverifiedGroups' = done.group.unverifiedGroups
           /\ groupLog' = done.group.groupLog
           /\ groupAttempt' = IF done.group.code = "ok" THEN NoAttempt
                              ELSE [failed |-> done.group.failed, code |-> done.group.code,
                                    before |-> done.group.before]
           /\ sentBlocks' = AllBlocks(done.batches)
           /\ sentBatches' = Len(done.batches)
           /\ resourceKeys' = done.resourceKeys
           /\ shareResult' = [op |-> op, status |-> done.status,
                              resources |-> keyResourceIds,
                              resourceId |-> keyResourceIds[1].resourceId,
                              key |-> keyResourceIds[1].key,
                              users |-> {e.value : e \in
                                           {f \in SeqToSet(shareWithUsers) : f.target = "user"}},
                              provisionals |-> {f \in SeqToSet(shareWithUsers) :
                                                   f.target # "user"},
                              groups |-> SeqToSet(shareWithGroups),
                              shareWithSelf |-> shareWithSelf]
           /\ UNCHANGED <<nextIndex, blocks, claimed, lockVars, tankerVars, streamVars, manageVars, codecVars, moreVars>>

\* makeSimpleResource, makeStreamResource: a fresh resource id and a random
\* key, shared with the recipients of the options
EncryptWith(ops, usersLists, groupsLists) ==
    /\ nextResource <= MaxResources
    /\ \E op \in ops :
       \E shareWithUsers \in usersLists :
       \E shareWithGroups \in groupsLists :
       \E shareWithSelf \in BOOLEAN :
       \E key \in EncryptionKeys :
          CallShareResources(op, <<[resourceId |-> nextResource, key |-> key]>>,
                             shareWithUsers, shareWithGroups, shareWithSelf)
    /\ nextResource' = nextResource + 1

\* encryptAndShareData(data, options)
EncryptAndShareData ==
    EncryptWith({"encryptAndShareData"}, ShareWithUsersLists, ShareWithGroupsLists)

NextShare ==
    \/ RecvSharedGroupCreation
    \/ EncryptAndShareData

SpecShare == InitShareSession /\ [][NextShare]_vars

(***************************************************************************)
(* Publishing sessions.  The resource store holds the keys of resources    *)
(* encrypted by earlier sessions; the local user shares them, one or       *)
(* several in a call, and encrypts data and streams.                       *)
(***************************************************************************)
InitPublishSession == SessionStartWith({QueuedDevice}, StoredResources)

PublishUsersLists ==
    {<<>>, <<ProvisionalIdentity, UserIdentity(Recipient)>>, <<UserIdentity(UnknownUserId)>>}

PublishedGroup == CHOOSE g \in GroupIds : TRUE

PublishGroupsLists == {<<>>, <<PublishedGroup>>}

\* the stored resources in order, the first of them, the resource of the
\* session
ResourceIdLists ==
    {<<MaxResources + 1>>, [i \in 1..MaxStored |-> MaxResources + i], <<1>>}

\* the server hands out a creation block of the published group
RecvPublishedGroupCreation == RecvGroupCreationOf({PublishedGroup}, {PlainShape})

\* resourceManager.findKeyFromResourceId: the key the store holds
findKeyFromResourceId(keys, resourceId) == keys[resourceId]

\* the key of every resource is found
KeysFound(resourceIds) ==
    \A i \in 1..Len(resourceIds) :
        findKeyFromResourceId(resourceKeys, resourceIds[i]) # NoKey

\* encryptAndShareData(data, options), makeEncryptorStream(options): the
\* calls of _shareResources for a fresh resource
EncryptCalls ==
    IF nextResource > MaxResources THEN {}
    ELSE {[op |-> op, keys |-> <<[resourceId |-> nextResource, key |-> key]>>,
           shareWithUsers |-> users, shareWithGroups |-> groups,
           shareWithSelf |-> self, fresh |-> TRUE] :
             op \in {"encryptAndShareData", "makeEncryptorStream"},
             key \in EncryptionKeys, users \in PublishUsersLists,
             groups \in PublishGroupsLists, self \in BOOLEAN}

\* share(resourceIds, shareWith): the calls of _shareResources for resources
\* whose keys are found
ShareCalls ==
    {[op |-> "share",
      keys |-> [i \in 1..Len(resourceIds) |->
                   [resourceId |-> resourceIds[i],
                    key |-> findKeyFromResourceId(resourceKeys, resourceIds[i])]],
      shareWithUsers |-> users, shareWithGroups |-> groups,
      shareWithSelf |-> FALSE, fresh |-> FALSE] :
        resourceIds \in {l \in ResourceIdLists : KeysFound(l)},
        users \in PublishUsersLists, groups \in PublishGroupsLists}

\* encryptAndShareData, makeEncryptorStream or share, from its call of
\* _shareResources on
ShareResources ==
    \E call \in EncryptCalls \cup ShareCalls :
        /\ CallShareResources(call.op, call.keys, call.shareWithUsers,
                              call.shareWithGroups, call.shareWithSelf)
        /\ nextResource' = IF call.fresh THEN nextResource + 1 ELSE nextResource

\* share(resourceIds, shareWith) when a key is not found: ResourceNotFound
ShareNotFound ==
    \E resourceIds \in ResourceIdLists :
        /\ ~KeysFound(resourceIds)
        /\ shareResult' = [NoShare EXCEPT !.op = "share", !.status = "ResourceNotFound"]
        /\ sentBlocks' = <<>>
        /\ sentBatches' = 0
        /\ userLog' = <<>>
        /\ lastResult' = [op |-> "share", code |-> "ok", failed |-> Null]
        /\ groupAttempt' = NoAttempt
        /\ UNCHANGED <<userStore, unverifiedUsers, nextIndex, blocks, applyCount,
                       groupStore, unverifiedGroups, groupLog, claimed,
                       resourceKeys, nextResource, lockVars, tankerVars, streamVars, manageVars, codecVars, moreVars>>

NextPublish ==
    \/ RecvPublishedGroupCreation
    \/ ShareResources
    \/ ShareNotFound

SpecPublish == InitPublishSession /\ [][NextPublish]_vars

(***************************************************************************)
(* Group management sessions.  The local user looks groups up, creates     *)
(* groups and adds members to them; the server hands out creation blocks   *)
(* of the groups.  A call records the calls it made of the user accessor   *)
(* (lookups), of _fetchGroups (fetched), of client.sendBlock (sent) and of *)
(* trustchain.sync() (syncs).                                              *)
(***************************************************************************)
\* the first device of the recipient is verified or still queued; a device
\* that does not verify may be queued with it
InitManageSession ==
    \E start \in {<<{FirstDevice(Self)}, {FirstDevice(Recipient)}>>,
                  <<{FirstDevice(Self)}, {FirstDevice(Recipient), QueuedBadDevice}>>,
                  <<{FirstDevice(Self), FirstDevice(Recipient)}, {QueuedDevice}>>} :
        SessionStartFrom(SortByIndex(start[1]), start[2], {})

\* plain, or with a slot for the local user
ManagedCreationShapes == {PlainShape, <<2, "none", "user">>}

RecvManagedGroupCreation == RecvGroupCreationOf(GroupIds, ManagedCreationShapes)

\* more identities than a group can hold
OversizedList == [i \in 1..(MAX_GROUP_SIZE + 1) |-> UserIdentity(Recipient)]

MemberLists ==
    {<<>>, <<UserIdentity(Recipient)>>, <<SelfIdentity, UserIdentity(Recipient)>>,
     <<UserIdentity(UnknownUserId)>>,
     <<UserIdentity(UnknownUserId), UserIdentity(Recipient), UserIdentity(UnknownUserId)>>,
     OversizedList}

\* the answers of the server to sendBlock
ServerAnswers == {"ok", "group_too_big"}

\* the verifier run a call starts from
StartRun ==
    GroupRun(Run(userStore, unverifiedUsers, <<>>, "ok", Null),
             groupStore, unverifiedGroups, groupLog, "ok", NoGroupEntry, groupStore)

\* the requested group ids the group store holds
StoredGroups(groups, groupIds) ==
    {g \in SeqToSet(groupIds) : groups[g].state # "Unknown"}

\* the requested group ids the group store holds as full groups
FullGroups(groups, groupIds) ==
    {g \in SeqToSet(groupIds) : findFull(groups, g).state # "Unknown"}

GroupCall(op, groupIds, publicIdentities) ==
    [NoGroupCall EXCEPT !.op = op, !.groupIds = groupIds,
                        !.size = Len(publicIdentities),
                        !.stored = StoredGroups(groupStore, groupIds),
                        !.full = FullGroups(groupStore, groupIds)]

\* the check of the size at the start of createGroup and updateGroupMembers
invalidGroupSizeOfNone(publicIdentities) == FALSE

invalidGroupSize(publicIdentities) ==
    Len(publicIdentities) = 0 \/ Len(publicIdentities) > MAX_GROUP_SIZE

\* blockGenerator.createUserGroup, addToUserGroup: the block names its
\* author, its group (Null for the new one) and the members it is sealed to
makeUserGroupBlock(nature, groupId, fullUsers) ==
    [nature |-> nature, author |-> LocalDeviceId, group_id |-> groupId,
     members |-> fullUsers.userIds]

\* createGroup and updateGroupMembers once getUsers has answered: the block is
\* made and sent, and the trustchain synchronised
membersAdded(done, fullUsers, looked, nature, groupId, answer) ==
    IF fullUsers.status # "ok"
    THEN [run |-> done,
          call |-> [looked EXCEPT !.status = fullUsers.status,
                                  !.recipientIds = fullUsers.missingIds]]
    ELSE IF answer = "group_too_big"
    THEN [run |-> done,
          call |-> [looked EXCEPT !.status = IF nature = "user_group_addition"
                                             THEN "InvalidGroupSize" ELSE "ServerError",
                                  !.sent = <<makeUserGroupBlock(nature, groupId, fullUsers)>>]]
    ELSE [run |-> done,
          call |-> [looked EXCEPT !.status = "ok",
                                  !.sent = <<makeUserGroupBlock(nature, groupId, fullUsers)>>,
                                  !.syncs = 1]]

\* the stores once getUsers has answered
usersFetched(run, fullUsers, looked, nature, groupId, answer) ==
    membersAdded([run EXCEPT !.user = fullUsers.run], fullUsers, looked,
                 nature, groupId, answer)

\* createGroup and updateGroupMembers from the call of getUsers on
addMembers(run, call, nature, groupId, publicIdentities, answer) ==
    usersFetched(run, getUsers(run.user, publicIdentities),
                 [call EXCEPT !.requested = publicIdentities, !.lookups = 1],
                 nature, groupId, answer)

\* GroupManager.createGroup(publicIdentities)
createGroup(run, call, publicIdentities, answer) ==
    IF invalidGroupSize(publicIdentities)
    THEN [run |-> run, call |-> [call EXCEPT !.status = "InvalidGroupSize"]]
    ELSE addMembers(run, call, "user_group_creation", Null, publicIdentities, answer)

\* updateGroupMembers once the group is fetched
updateFetchedGroup(fetched, call, groupId, publicIdentities, answer) ==
    IF fetched.code # "ok"
    THEN [run |-> fetched, call |-> [call EXCEPT !.status = "InvalidBlockError"]]
    ELSE IF findFull(fetched.groups, groupId).state = "Unknown"
    THEN [run |-> fetched, call |-> [call EXCEPT !.status = "InvalidArgument"]]
    ELSE addMembers(fetched, call, "user_group_addition", groupId, publicIdentities, answer)

\* GroupManager.updateGroupMembers(groupId, publicIdentities)
updateGroupMembers(run, claimedIdentity, call, groupId, publicIdentities, answer) ==
    IF invalidGroupSize(publicIdentities)
    THEN [run |-> run, call |-> [call EXCEPT !.status = "InvalidGroupSize"]]
    ELSE updateFetchedGroup(fetchGroups(run, claimedIdentity, <<groupId>>),
                            [call EXCEPT !.fetched = <<<<groupId>>>>],
                            groupId, publicIdentities, answer)

\* the calls of _fetchGroups findGroups makes
fetchCalls(externalGroups) ==
    IF Len(externalGroups) > 0 THEN <<externalGroups>> ELSE <<>>

\* a call of the GroupManager: the stores become what it leaves behind
GroupCallDone(run, call) ==
    LET count == [h \in 1..MaxIndex |-> applyCount[h] + Occurrences(run.user.log, h)]
    IN /\ \A h \in 1..MaxIndex : count[h] <= MaxApply
       /\ userStore' = run.user.store
       /\ unverifiedUsers' = run.user.unverified
       /\ userLog' = run.user.log
       /\ applyCount' = count
       /\ lastResult' = [op |-> call.op,
                         code |-> IF run.code # "ok" THEN run.code ELSE run.user.code,
                         failed |-> IF run.code # "ok" THEN run.failed.hash
                                    ELSE run.user.failed]
       /\ groupStore' = run.groups
       /\ unverifiedGroups' = run.unverifiedGroups
       /\ groupLog' = run.groupLog
       /\ groupAttempt' = IF run.code = "ok" THEN NoAttempt
                          ELSE [failed |-> run.failed, code |-> run.code,
                                before |-> run.before]
       /\ groupCall' = call
       /\ UNCHANGED <<nextIndex, blocks, claimed>>
       /\ UNCHANGED <<shareVars, lockVars, tankerVars, streamVars, codecVars, moreVars>>

\* GroupManager.findGroups(groupIds)
FindGroups ==
    \E groupIds \in GroupIdLists \cup {<<>>} :
    \E found \in {findGroups(StartRun, claimed, groupIds)} :
        GroupCallDone(found.run,
                      [GroupCall("findGroups", groupIds, <<>>) EXCEPT
                          !.status = IF found.run.code # "ok" THEN "InvalidBlockError"
                                     ELSE "ok",
                          !.fetched = fetchCalls(found.externalGroups)])

CreateGroup ==
    \E publicIdentities \in MemberLists :
    \E answer \in ServerAnswers :
    \E done \in {createGroup(StartRun, GroupCall("createGroup", <<>>, publicIdentities),
                             publicIdentities, answer)} :
        GroupCallDone(done.run, done.call)

UpdateGroupMembers ==
    \E groupId \in GroupIds :
    \E publicIdentities \in MemberLists :
    \E answer \in ServerAnswers :
    \E done \in {updateGroupMembers(StartRun, claimed,
                                    GroupCall("updateGroupMembers", <<groupId>>,
                                              publicIdentities),
                                    groupId, publicIdentities, answer)} :
        GroupCallDone(done.run, done.call)

\* sessions that create groups and add members to them
NextManage ==
    \/ RecvManagedGroupCreation
    \/ CreateGroup
    \/ UpdateGroupMembers

SpecManage == InitManageSession /\ [][NextManage]_vars

\* sessions that look groups up
NextLookup ==
    \/ RecvManagedGroupCreation
    \/ FindGroups

SpecLookup == InitManageSession /\ [][NextLookup]_vars

(***************************************************************************)
(* Concurrent calls of the verifier.  The calls are asynchronous: a call   *)
(* gives way to the others at each await.  A call that goes through        *)
(* _verifyLock.runExclusive waits for the lock, runs its body and releases *)
(* the lock; verifyOwnDeviceCreation and verifyOwnDeviceRevocation read    *)
(* the user, then verify the block against what they read and apply it.    *)
(* The session holds a queued second device of the local user and the      *)
(* queued revocation of that device.                                       *)
(***************************************************************************)
OwnDevice == DeviceCreationEntry(3, Self, Self, "device_creation_v3", Self, "none")

OwnRevocation ==
    DeviceRevocationEntry(4, Self, Self, OwnDevice.hash, "device_revocation_v2",
                          Recipient, Self, <<Self>>)

\* a second new device of the local user, authored by its first device
OwnSecondDevice == DeviceCreationEntry(4, Self, Self, "device_creation_v3", Self, "none")

InitLockSession ==
    \E queued \in {{OwnDevice, OwnRevocation}, {OwnDevice, OwnSecondDevice}} :
        SessionStart(queued)

ExclusiveOps == {"verifyDeviceCreation", "verifyDeviceRevocation", "updateUserStore"}

OwnOps == {"verifyOwnDeviceCreation", "verifyOwnDeviceRevocation"}

\* the entries an entry point takes
TakesEntry(op, entry) ==
    CASE op \in {"verifyDeviceCreation", "verifyOwnDeviceCreation"} ->
             isDeviceCreation(entry.nature)
      [] op \in {"verifyDeviceRevocation", "verifyOwnDeviceRevocation"} ->
             isDeviceRevocation(entry.nature)
      [] OTHER -> entry = NoEntry

LockStep(p, pc) ==
    /\ callPc' = [callPc EXCEPT ![p] = pc]
    /\ UNCHANGED <<nextIndex, blocks, groupVars, shareVars, tankerVars, streamVars, manageVars, codecVars, moreVars>>

\* a caller enters an entry point with a block of the unverified store
CallVerifier ==
    \E p \in Callers : \E op \in ExclusiveOps \cup OwnOps :
    \E entry \in unverifiedUsers \cup {NoEntry} :
        /\ callPc[p] = "idle"
        /\ TakesEntry(op, entry)
        /\ callOp' = [callOp EXCEPT ![p] = op]
        /\ callEntry' = [callEntry EXCEPT ![p] = entry]
        /\ LockStep(p, IF op \in ExclusiveOps THEN "runExclusive" ELSE "findUser")
        /\ UNCHANGED <<userStore, unverifiedUsers, userLog, applyCount, lastResult>>
        /\ UNCHANGED <<verifyLock, callUser>>

\* Mutex.runExclusive: the body starts once the lock is free
AcquireVerifyLock ==
    \E p \in Callers :
        /\ callPc[p] = "runExclusive"
        /\ verifyLock = Null
        /\ verifyLock' = p
        /\ LockStep(p, "body")
        /\ UNCHANGED <<userStore, unverifiedUsers, userLog, applyCount, lastResult>>
        /\ UNCHANGED <<callOp, callEntry, callUser>>

\* what UserCall leaves of the user side
UserWrite(p, run) ==
    LET count == [h \in 1..MaxIndex |-> applyCount[h] + Occurrences(run.log, h)]
    IN /\ \A h \in 1..MaxIndex : count[h] <= MaxApply
       /\ userStore' = run.store
       /\ unverifiedUsers' = run.unverified
       /\ userLog' = run.log
       /\ applyCount' = count
       /\ lastResult' = Result(callOp[p], run)

\* the body of an exclusive entry point
ExclusiveBody ==
    \E p \in Callers :
        /\ callPc[p] = "body"
        /\ \E run \in {IF callOp[p] = "updateUserStore"
                       THEN updateUserStore(userStore, unverifiedUsers, <<>>, UserIds)
                       ELSE throwingVerifyDevice(userStore, unverifiedUsers, <<>>,
                                                 callEntry[p])} :
              UserWrite(p, run)
        /\ LockStep(p, "release")
        /\ UNCHANGED <<verifyLock, callOp, callEntry, callUser>>

ReleaseVerifyLock ==
    \E p \in Callers :
        /\ callPc[p] = "release"
        /\ verifyLock' = Null
        /\ LockStep(p, "idle")
        /\ UNCHANGED <<userStore, unverifiedUsers, userLog, applyCount, lastResult>>
        /\ UNCHANGED <<callOp, callEntry, callUser>>

\* verifyOwnDeviceCreation, verifyOwnDeviceRevocation: userStore.findUser
OwnFindUser ==
    \E p \in Callers :
        /\ callPc[p] = "findUser"
        /\ callUser' = [callUser EXCEPT ![p] = userStore[callEntry[p].user_id]]
        /\ LockStep(p, "verifyAndApply")
        /\ UNCHANGED <<userStore, unverifiedUsers, userLog, applyCount, lastResult>>
        /\ UNCHANGED <<verifyLock, callOp, callEntry>>

\* _unlockedVerifyAndApplySingleUserEntry(user, entry) on the user read before
unlockedVerifyAndApplyOwnEntry(store, unverified, user, entry) ==
    LET code == unlockedVerifySingleUserEntry(store, user, entry)
    IN IF code # "ok" THEN Run(store, unverified, <<>>, code, entry.hash)
       ELSE Run(applyEntry(store, entry),
                removeVerifiedUserEntries(unverified, <<entry>>),
                <<entry>>, "ok", Null)

OwnVerifyAndApply ==
    \E p \in Callers :
        /\ callPc[p] = "verifyAndApply"
        /\ \E run \in {unlockedVerifyAndApplyOwnEntry(userStore, unverifiedUsers,
                                                      callUser[p], callEntry[p])} :
              UserWrite(p, run)
        /\ LockStep(p, "idle")
        /\ UNCHANGED <<verifyLock, callOp, callEntry, callUser>>

NextLock ==
    \/ CallVerifier
    \/ AcquireVerifyLock
    \/ ExclusiveBody
    \/ ReleaseVerifyLock
    \/ OwnFindUser
    \/ OwnVerifyAndApply

SpecLock == InitLockSession /\ [][NextLock]_vars

\* a caller that has read the verified state and has yet to write it back
InReadCheckWrite(p) == callPc[p] \in {"body", "verifyAndApply"}

\* C3: an entry point that reads the verified state, checks a block and
\* writes the result back holds the verify lock from its read to its write,
\* so that no two such sequences are under way at once
C3_ReadCheckWriteHoldsLock ==
    /\ \A p \in Callers : InReadCheckWrite(p) => verifyLock = p
    /\ \A p, q \in Callers : InReadCheckWrite(p) /\ InReadCheckWrite(q) => p = q

\* the key publish blocks of the last call that give its key to the holder of
\* the public encryption key
BlocksTo(nature, publicEncryptionKey) ==
    {i \in 1..Len(sentBlocks) :
        sentBlocks[i] = makeKeyPublishBlock(publicEncryptionKey, shareResult.key,
                                            shareResult.resourceId, nature)}

\* the blocks the recipient set S with the local user calls for
RecipientBlocks ==
    {makeKeyPublishBlock(getLastUserPublicKey(userStore[u]), shareResult.key,
                         shareResult.resourceId, "key_publish_to_user") :
        u \in (shareResult.users \cup {Self}) \cap UserIds}
    \cup {makeInviteeKeyPublishBlock(InviteeKey(p), shareResult.key, shareResult.resourceId) :
             p \in shareResult.provisionals}
    \cup {makeKeyPublishBlock(SharedGroupKey(g), shareResult.key, shareResult.resourceId,
                              "key_publish_to_user_group") : g \in shareResult.groups}

SharedWithSelf == shareResult.status = "ok" /\ shareResult.shareWithSelf

\* C1: a resource encrypted with shareWithSelf for the recipient set S gives
\* its key to every member of S and to the local user, one key publish block
\* each, caches it for the local user, and sends no block to anyone else
C1_EveryRecipientGetsTheKey ==
    SharedWithSelf =>
        /\ \A block \in RecipientBlocks : Cardinality(BlocksTo(block.nature, block.to)) = 1
        /\ resourceKeys[shareResult.resourceId] = shareResult.key
        /\ SeqToSet(sentBlocks) \subseteq RecipientBlocks

(***************************************************************************)
(* Devices and revocations                                                 *)
(***************************************************************************)
RECURSIVE TimesApplied(_)
TimesApplied(hashes) ==
    IF hashes = {} THEN 0
    ELSE LET h == CHOOSE x \in hashes : TRUE
         IN applyCount[h] + TimesApplied(hashes \ {h})

RevocationsOf(deviceId) ==
    {h \in 1..MaxIndex :
        isDeviceRevocation(blocks[h].nature) /\ blocks[h].device_id = deviceId}

V2RevocationsOfUser(userId) ==
    {h \in 1..MaxIndex :
        blocks[h].nature = "device_revocation_v2" /\ blocks[h].user_id = userId}

\* C4: a device's revokedAt is finite iff exactly one revocation block naming
\* it has been applied, and no revocation block is applied twice.
C4_RevokedByExactlyOneBlock ==
    /\ \A u \in UserIds : \A d \in DeviceIds(userStore[u]) :
          FindDeviceIn(userStore[u], d).revokedAt < MAX_SAFE_INTEGER
             <=> TimesApplied(RevocationsOf(d)) = 1
    /\ \A h \in 1..MaxIndex :
          isDeviceRevocation(blocks[h].nature) => applyCount[h] <= 1

AppliedV2Revocations(userId) ==
    {h \in V2RevocationsOfUser(userId) : applyCount[h] >= 1}

\* C5: a user holding user keys has 1 + (number of its applied v2
\* revocation blocks) entries in userPublicKeys.
C5_OneKeyPerV2Revocation ==
    \A u \in UserIds :
        userStore[u].userPublicKeys # <<>>
           => Len(userStore[u].userPublicKeys) = 1 + Cardinality(AppliedV2Revocations(u))


(***************************************************************************)
(* Groups                                                                  *)
(***************************************************************************)
AppliedAdditions(g) ==
    {i \in 1..Len(groupLog[g]) : isUserGroupAddition(groupLog[g][i].entry.nature)}

\* every applied addition named the lastGroupBlock stored when it was verified
AdditionsNameLastGroupBlock ==
    \A g \in GroupIds : \A i \in AppliedAdditions(g) :
        groupLog[g][i].entry.previous_group_block = groupLog[g][i].found.lastGroupBlock

\* of the additions naming one predecessor at most one is applied
OneAdditionPerPredecessor ==
    \A g \in GroupIds : \A i, j \in AppliedAdditions(g) :
        groupLog[g][i].entry.previous_group_block = groupLog[g][j].entry.previous_group_block
           => i = j

\* every applied addition names the block applied just before it
AdditionsFollowTheirPredecessor ==
    \A g \in GroupIds : \A i \in 1..Len(groupLog[g]) :
        IF i = 1 THEN isUserGroupCreation(groupLog[g][i].entry.nature)
        ELSE i \in AppliedAdditions(g)
                => groupLog[g][i].entry.previous_group_block = groupLog[g][i - 1].entry.hash

\* the creation is the first applied block, and the only one
OneCreation ==
    \A g \in GroupIds : \A i \in 1..Len(groupLog[g]) :
        isUserGroupCreation(groupLog[g][i].entry.nature) => i = 1

LastApplied(g) == groupLog[g][Len(groupLog[g])].entry

\* C7: once an addition is applied to a group, the group's lastGroupBlock
\* is the hash of the addition, whatever the state of the group.
C7_LastGroupBlockIsAddition ==
    \A g \in GroupIds :
        (Len(groupLog[g]) > 0 /\ isUserGroupAddition(LastApplied(g).nature))
           => groupStore[g].lastGroupBlock = LastApplied(g).hash

\* an addition applied to a group the local user was a member of already
C7_Witness ==
    \E g \in GroupIds :
        /\ Len(groupLog[g]) > 1
        /\ isUserGroupAddition(LastApplied(g).nature)
        /\ groupLog[g][Len(groupLog[g])].found.state = "Internal"
        /\ groupStore[g].state = "Internal"

\* C8: a group never moves back: not from Internal to External or Unknown,
\* not from External to Unknown.
C8_GroupStateMonotone ==
    [][\A g \in GroupIds :
          /\ groupStore[g].state = "Internal" => groupStore'[g].state = "Internal"
          /\ groupStore[g].state = "External" => groupStore'[g].state # "Unknown"]_vars


\* the creation block as it was before its self-signature was tampered with
Untampered(entry) == [entry EXCEPT !.self_signer = entry.public_signature_key]

\* the failed block is a creation for a group that exists under another
\* public encryption key
FailedDuplicateCreation ==
    /\ isUserGroupCreation(groupAttempt.failed.nature)
    /\ groupAttempt.before[groupAttempt.failed.group_id].state # "Unknown"
    /\ groupAttempt.before[groupAttempt.failed.group_id].publicEncryptionKey
          # groupAttempt.failed.public_encryption_key

\* no applied creation found its group stored under another key
NoDuplicateCreationApplied ==
    \A g \in GroupIds : \A i \in 1..Len(groupLog[g]) :
        (isUserGroupCreation(groupLog[g][i].entry.nature)
            /\ groupLog[g][i].found.state # "Unknown")
           => groupLog[g][i].found.publicEncryptionKey
                 = groupLog[g][i].entry.public_encryption_key

\* C9 (as claimed): a creation for an existing group id that announces
\* another public encryption key is rejected with group_already_exists.
C9_DuplicateIsGroupAlreadyExists ==
    /\ NoDuplicateCreationApplied
    /\ FailedDuplicateCreation => groupAttempt.code = "group_already_exists"

\* C9 (amended): such a creation is never applied, and it is rejected with
\* group_already_exists when its author is a known device that is not
\* revoked and its author signature verifies; the checks of the author come
\* first.
C9_DuplicateIsRejected ==
    /\ NoDuplicateCreationApplied
    /\ FailedDuplicateCreation =>
          groupAttempt.code =
             IF foundAuthor(userStore, groupAttempt.failed).deviceId = Null
             THEN "author_not_found"
             ELSE IF groupAttempt.failed.tamper = "signature" THEN "invalid_signature"
             ELSE "group_already_exists"

C9_Witness ==
    /\ FailedDuplicateCreation
    /\ groupAttempt.code = "group_already_exists"

\* the failed block is a creation whose only defect is its self-signature
FailedOnSelfSignatureOnly ==
    /\ isUserGroupCreation(groupAttempt.failed.nature)
    /\ groupAttempt.failed.tamper = "self_signature"
    /\ foundAuthor(userStore, groupAttempt.failed).deviceId # Null
    /\ unlockedVerifySingleUserGroupEntry(groupAttempt.before,
           Untampered(groupAttempt.failed),
           foundAuthor(userStore, groupAttempt.failed)) = "ok"

\* C10: a creation that is valid but for its self-signature is rejected
\* with invalid_self_signature, the group store is as the block found it,
\* and no block with a tampered self-signature is ever applied.
C10_TamperedCreationRejected ==
    /\ FailedOnSelfSignatureOnly
          => /\ groupAttempt.code = "invalid_self_signature"
             /\ groupStore = groupAttempt.before
    /\ \A g \in GroupIds : \A i \in 1..Len(groupLog[g]) :
          groupLog[g][i].entry.tamper # "self_signature"

\* a tampered creation rejected in a call that applied another block first
C10_Witness ==
    /\ FailedOnSelfSignatureOnly
    /\ groupAttempt.code = "invalid_self_signature"
    /\ \E g \in GroupIds : groupStore[g].state # "Unknown"


(***************************************************************************)
(* Failed blocks                                                           *)
(***************************************************************************)
RECURSIVE applyGroupEntries(_, _, _)
applyGroupEntries(groups, claimedIdentity, items) ==
    IF Len(items) = 0 THEN groups
    ELSE applyGroupEntries(applyGroupEntry(groups, claimedIdentity, Head(items).entry),
                           claimedIdentity, Tail(items))

\* the group blocks the step applied to the group
NewlyApplied(g) == SubSeq(groupLog'[g], Len(groupLog[g]) + 1, Len(groupLog'[g]))

\* the block passes the checks of the verifier against the group it found
PassedVerification(item) ==
    LET authorEntry == foundAuthor(userStore', item.entry) IN
    /\ authorEntry.deviceId # Null
    /\ IF isUserGroupCreation(item.entry.nature)
       THEN verifyUserGroupCreationEntry(item.entry, authorEntry, item.found) = "ok"
       ELSE verifyUserGroupAdditionEntry(item.entry, authorEntry, item.found) = "ok"

CallFailed == lastResult.code # "ok" /\ lastResult.failed # Null

\* C11: a block that failed verification is dropped: the next verifier call
\* does not submit it to verification (and fail on it) again
C11_FailedBlockNotRetried ==
    [][CallFailed => ~(lastResult'.code # "ok" /\ lastResult'.failed = lastResult.failed)]_vars

\* the queued entry with hash h
QueuedEntry(h) == CHOOSE e \in unverifiedUsers : e.hash = h

\* the first queued entry of every user of userIds other than userId
FirstQueuedOfOthers(userIds, userId) ==
    {e \in unverifiedUsers :
        /\ e.user_id \in userIds \ {userId}
        /\ \A o \in unverifiedUsers : o.user_id = e.user_id => e.index <= o.index}

\* this step is the call updateUserStore(userIds) and it left run behind
IsUpdateUserStore(userIds, run) ==
    /\ lastResult' = Result("updateUserStore", run)
    /\ userStore' = run.store
    /\ userLog' = run.log

\* C12: a verification failure is confined to the failed block: when
\* updateUserStore(userIds) meets an invalid block, the queued blocks of the
\* other users of userIds that are valid are still verified and applied in
\* that call
C12_FailureConfinedToBlock ==
    [][\A userIds \in SUBSET UserIds :
         \A run \in {updateUserStore(userStore, unverifiedUsers, <<>>, userIds)} :
            (userIds # {} /\ IsUpdateUserStore(userIds, run) /\ run.code # "ok")
            => \A e \in FirstQueuedOfOthers(userIds, QueuedEntry(run.failed).user_id) :
                  unlockedVerifySingleUserEntry(userStore, userStore[e.user_id], e) = "ok"
                  => e \in SeqToSet(userLog')]_vars

(***************************************************************************)
(* Order of application                                                    *)
(***************************************************************************)
\* position i of the sequence of blocks a call applied comes after every
\* block of queued that has the subject of the block and a smaller index
InIndexOrder(applied, queued, subject) ==
    \A i \in 1..Len(applied) :
        \A o \in queued :
            (o[subject] = applied[i][subject] /\ o.index < applied[i].index)
            => \E j \in 1..(i - 1) : applied[j].hash = o.hash

\* the group blocks the step applied to group g, as entries
NewlyAppliedEntries(g) ==
    [i \in 1..Len(NewlyApplied(g)) |-> NewlyApplied(g)[i].entry]

\* C13: per subject (user id, group id) the verifier applies queued blocks
\* in increasing index order: a call never applies a block while a block of
\* the same subject with a smaller index is queued and not yet applied
C13_AppliedInIndexOrder ==
    [][/\ applyCount' # applyCount => InIndexOrder(userLog', unverifiedUsers, "user_id")
          /\ \A g \in GroupIds :
                InIndexOrder(NewlyAppliedEntries(g), unverifiedGroups, "group_id")]_vars

(***************************************************************************)
(* One batch against several calls                                         *)
(***************************************************************************)
\* the user blocks received so far
ReceivedUserBlocks == {blocks[h] : h \in 1..MaxIndex} \ {NoEntry}

\* updateUserStore over the whole log, from the empty store
BatchUserRun ==
    updateUserStore([u \in UserIds |-> NoUser], ReceivedUserBlocks, <<>>, UserIds)

\* the group blocks the calls applied so far
AppliedGroupBlocks ==
    UNION {{groupLog[g][i].entry : i \in 1..Len(groupLog[g])} : g \in GroupIds}

\* updateGroupStore over all group blocks, from the empty group store
BatchGroupRun ==
    updateGroupStore(
        GroupRun(Run(userStore, unverifiedUsers, <<>>, "ok", Null),
                 [g \in GroupIds |-> NoGroup], AppliedGroupBlocks,
                 [g \in GroupIds |-> <<>>], "ok", NoGroupEntry,
                 [g \in GroupIds |-> NoGroup]),
        FALSE, <<1, 2>>)

\* the same users with the same devices and the same history of user keys
SameUsers(a, b) ==
    \A u \in UserIds :
        /\ SeqToSet(a[u].devices) = SeqToSet(b[u].devices)
        /\ Len(a[u].devices) = Len(b[u].devices)
        /\ a[u].userPublicKeys = b[u].userPublicKeys

\* C14: once the calls made so far have verified every block of the log
\* (nothing is queued), the stores are what one updateUserStore and one
\* updateGroupStore over the whole log produce from empty stores
C14_BatchEqualsIncremental ==
    /\ unverifiedUsers = {} =>
          /\ BatchUserRun.code = "ok"
          /\ SameUsers(BatchUserRun.store, userStore)
    /\ (unverifiedGroups = {} /\ ~claimed) =>
          /\ BatchGroupRun.code = "ok"
          /\ BatchGroupRun.groups = groupStore

(***************************************************************************)
(* Pending provisional slots                                               *)
(***************************************************************************)
\* a verified block of group g announced a slot for the local user's
\* provisional identity
AnnouncedPending(g) ==
    \E i \in 1..Len(groupLog[g]) : groupLog[g][i].entry.pending_for_me

\* C15: while a group is External its stored pending slots are the union of
\* the slots announced by the verified creation and addition blocks of the
\* group: the slot of the local user's provisional identity is stored exactly
\* when one of them announced it
C15_PendingSlotsKept ==
    \A g \in GroupIds :
        groupStore[g].state = "External"
        => groupStore[g].pendingEncryptionKeys = AnnouncedPending(g)

(***************************************************************************)
(* Joining a group by an addition                                          *)
(***************************************************************************)
\* the last block applied to group g is an addition, found the group
\* External and has a slot sealed to a key of the local user
JoinedByAddition(g) ==
    /\ Len(groupLog[g]) > 0
    /\ isUserGroupAddition(LastApplied(g).nature)
    /\ groupLog[g][Len(groupLog[g])].found.state = "External"
    /\ findMyUserKeys(LastApplied(g))

\* C16: after applyEntry of a verified addition that has a slot for the
\* local user, on a group that was External, the group is Internal: findFull
\* returns it, with the key pairs of the group the addition found and the
\* addition as last group block
C16_AdditionMakesGroupInternal ==
    \A g \in GroupIds :
        JoinedByAddition(g)
        => LET found == groupLog[g][Len(groupLog[g])].found
           IN findFull(groupStore, g) =
                 FullGroup(found.publicSignatureKey, found.publicEncryptionKey,
                           LastApplied(g).hash, LastApplied(g).index)

\* the addition that made the local user a member came after a creation
\* that left the group External
C16_Witness ==
    \E g \in GroupIds :
        /\ JoinedByAddition(g)
        /\ groupStore[g].state = "Internal"
        /\ isUserGroupCreation(groupLog[g][1].entry.nature)
        /\ ~groupLog[g][1].entry.for_me

(***************************************************************************)
(* Tanker: the session of an instance, its status and what the revocation  *)
(* of its device does to it.  Two instances of one user.  Session.init,    *)
(* LocalUser and the device manager are reduced to what they do to the     *)
(* status, the local storage and the trustchain.                           *)
(***************************************************************************)
\* get status
TankerStatus(t) == IF session[t] = "none" THEN "STOPPED" ELSE session[t]

\* Tanker.assert that lets every status pass: what C21 rests on
assertStatusIgnored(t, expected) == TRUE

\* Tanker.assert: whether the status is the expected one
assertStatus(t, expected) == TankerStatus(t) = expected

\* _setSession
setSession(t, s) == [session EXCEPT ![t] = s]

\* _nuke that keeps the session: what C19 rests on
nukeKeepingSession(t) == session

\* _nuke, up to its await: the session is dropped
nuke(t) == setSession(t, "none")

\* Storage.nuke that closes the datastore without destroying it: what C18
\* rests on
storageNukeWithoutDestroy(t) == [storage EXCEPT ![t] = "closed"]

\* Storage.nuke: close the stores, destroy the datastore
storageNuke(t) == [storage EXCEPT ![t] = "destroyed"]

\* the operations of Tanker that start with assert(statuses.READY, ...)
ReadyOperations ==
    {"share", "createGroup", "updateGroupMembers", "claimProvisionalIdentity",
     "makeEncryptorStream", "makeDecryptorStream", "getDeviceList"}

\* encrypt and decrypt of the client
ClientOperations == {"encrypt", "decrypt"}

Operations == ReadyOperations \cup ClientOperations \cup {"getResourceId"}

Call(t, op, outcome, usedSession) ==
    tankerCall' = [tanker |-> t, op |-> op, status |-> TankerStatus(t),
                   outcome |-> outcome, usedSession |-> usedSession]

TankerStep == UNCHANGED <<userVars, groupVars, shareVars, lockVars, streamVars, manageVars, codecVars, moreVars>>

\* the status Session.init leaves: a new user registers, a known device is
\* ready, a new device of a registered user verifies its identity
InitialStatus(t) ==
    IF ~registered THEN "IDENTITY_REGISTRATION_NEEDED"
    ELSE IF device[t] # Null THEN "READY"
    ELSE "IDENTITY_VERIFICATION_NEEDED"

\* start, up to its await: the status is asserted, Session.init is called
\* (one start() of an instance is awaited at a time)
Start ==
    \E t \in Tankers :
        /\ assertStatus(t, "STOPPED") => startPc[t] = "idle"
        /\ IF ~assertStatus(t, "STOPPED")
           THEN /\ Call(t, "start", "InvalidSessionStatus", FALSE)
                /\ UNCHANGED startPc
           ELSE /\ Call(t, "start", "pending", FALSE)
                /\ startPc' = [startPc EXCEPT ![t] = "init"]
        /\ UNCHANGED <<session, storage, device, registered, nextDevice, revokedDevices,
                       nukePc, nukeCount, deviceRevokedEvents>>
        /\ TankerStep

\* Session.init settles and start goes on: a session whose storage holds a
\* revoked device is refused, any other is set
SessionInitDone ==
    \E t \in Tankers :
        /\ startPc[t] # "idle"
        /\ IF device[t] \in revokedDevices
           THEN /\ Call(t, "start", "rejected", FALSE)
                /\ UNCHANGED <<session, storage>>
           ELSE /\ Call(t, "start", "ok", TRUE)
                /\ session' = setSession(t, InitialStatus(t))
                /\ storage' = [storage EXCEPT ![t] = "open"]
        /\ startPc' = [startPc EXCEPT ![t] = "idle"]
        /\ UNCHANGED <<device, registered, nextDevice, revokedDevices, nukePc,
                       nukeCount, deviceRevokedEvents>>
        /\ TankerStep

\* session.createUser, session.unlockUser: the instance gets a device
CreateDevice(t, op) ==
    /\ nextDevice <= MaxDevices
    /\ Call(t, op, "ok", TRUE)
    /\ session' = setSession(t, "READY")
    /\ device' = [device EXCEPT ![t] = nextDevice]
    /\ nextDevice' = nextDevice + 1
    /\ registered' = TRUE

Refused(t, op, outcome) ==
    /\ Call(t, op, outcome, outcome # "InvalidSessionStatus")
    /\ UNCHANGED <<session, device, nextDevice, registered>>

RegisterIdentity ==
    \E t \in Tankers :
        /\ IF ~assertStatus(t, "IDENTITY_REGISTRATION_NEEDED")
           THEN Refused(t, "registerIdentity", "InvalidSessionStatus")
           ELSE IF registered THEN Refused(t, "registerIdentity", "rejected")
           ELSE CreateDevice(t, "registerIdentity")
        /\ UNCHANGED <<storage, revokedDevices, nukePc, nukeCount, deviceRevokedEvents>>
        /\ UNCHANGED startPc
        /\ TankerStep

VerifyIdentity ==
    \E t \in Tankers :
        /\ IF ~assertStatus(t, "IDENTITY_VERIFICATION_NEEDED")
           THEN Refused(t, "verifyIdentity", "InvalidSessionStatus")
           ELSE CreateDevice(t, "verifyIdentity")
        /\ UNCHANGED <<storage, revokedDevices, nukePc, nukeCount, deviceRevokedEvents>>
        /\ UNCHANGED startPc
        /\ TankerStep

\* stop: the session is dropped, then closed
Stop ==
    \E t \in Tankers :
        /\ Call(t, "stop", "ok", session[t] # "none")
        /\ session' = setSession(t, "none")
        /\ storage' = IF session[t] # "none" THEN [storage EXCEPT ![t] = "closed"]
                      ELSE storage
        /\ UNCHANGED <<device, registered, nextDevice, revokedDevices, nukePc,
                       nukeCount, deviceRevokedEvents>>
        /\ startPc' = [startPc EXCEPT ![t] = IF @ = "init" THEN "init_stopped" ELSE @]
        /\ TankerStep

\* revokeDevice: the revocation block of a device of the user is pushed and
\* verified by the trustchain
RevokeDevice ==
    \E t \in Tankers : \E d \in 1..MaxDevices :
        /\ d < nextDevice
        /\ d \notin revokedDevices
        /\ IF assertStatus(t, "READY")
           THEN /\ Call(t, "revokeDevice", "ok", TRUE)
                /\ revokedDevices' = revokedDevices \cup {d}
           ELSE /\ Call(t, "revokeDevice", "InvalidSessionStatus", FALSE)
                /\ UNCHANGED revokedDevices
        /\ UNCHANGED <<session, storage, device, registered, nextDevice, nukePc,
                       nukeCount, deviceRevokedEvents>>
        /\ UNCHANGED startPc
        /\ TankerStep

\* the other operations: the status is asserted, then the session is used;
\* getResourceId reads the resource id off the data
CallOperation ==
    \E t \in Tankers : \E op \in Operations :
        /\ IF op = "getResourceId" THEN Call(t, op, "ok", FALSE)
           ELSE IF assertStatus(t, "READY") THEN Call(t, op, "ok", TRUE)
           ELSE Call(t, op, "InvalidSessionStatus", FALSE)
        /\ UNCHANGED <<session, storage, device, registered, nextDevice,
                       revokedDevices, nukePc, nukeCount, deviceRevokedEvents>>
        /\ UNCHANGED startPc
        /\ TankerStep

\* the session of a ready instance verifies the revocation of its own device:
\* localUser emits 'device_revoked', _nuke runs up to its await
DeviceRevoked ==
    \E t \in Tankers :
        /\ session[t] = "READY"
        /\ device[t] \in revokedDevices
        /\ session' = nuke(t)
        /\ nukePc' = [nukePc EXCEPT ![t] = device[t]]
        /\ tankerCall' = NoCall
        /\ UNCHANGED <<storage, device, registered, nextDevice, revokedDevices,
                       nukeCount, deviceRevokedEvents>>
        /\ UNCHANGED startPc
        /\ TankerStep

\* session.nuke() resolves: the storage is wiped, 'deviceRevoked' is emitted
NukeDone ==
    \E t \in Tankers :
        /\ nukePc[t] # Null
        /\ storage' = storageNuke(t)
        /\ nukeCount' = [nukeCount EXCEPT ![nukePc[t]] = @ + 1]
        /\ deviceRevokedEvents' = [deviceRevokedEvents EXCEPT ![nukePc[t]] = @ + 1]
        /\ device' = [device EXCEPT ![t] = IF storage'[t] = "destroyed" THEN Null ELSE @]
        /\ nukePc' = [nukePc EXCEPT ![t] = Null]
        /\ tankerCall' = NoCall
        /\ UNCHANGED <<session, registered, nextDevice, revokedDevices>>
        /\ UNCHANGED startPc
        /\ TankerStep

NextTanker ==
    \/ Start
    \/ SessionInitDone
    \/ RegisterIdentity
    \/ VerifyIdentity
    \/ Stop
    \/ RevokeDevice
    \/ CallOperation
    \/ DeviceRevoked
    \/ NukeDone

SpecTanker == Init /\ [][NextTanker]_vars

\* the promise of session.nuke() settles
FairSpecTanker == SpecTanker /\ WF_vars(NukeDone)

\* the instance has verified the revocation of its device and has not been
\* started again since
LocalDeviceRevoked(t) == nukePc[t] # Null \/ storage[t] = "destroyed"

C18_CountedOnce ==
    \A d \in 1..MaxDevices :
        /\ nukeCount[d] <= 1
        /\ deviceRevokedEvents[d] <= 1
        /\ deviceRevokedEvents[d] = nukeCount[d]
        /\ deviceRevokedEvents[d] = 1 => d \in revokedDevices

C18_WipedAndStopped ==
    \A t \in Tankers :
        (nukePc[t] # Null /\ nukePc'[t] = Null) =>
            /\ storage'[t] = "destroyed"
            /\ session'[t] = "none"
            /\ nukeCount'[nukePc[t]] = 1
            /\ deviceRevokedEvents'[nukePc[t]] = 1
            /\ \A d \in 1..MaxDevices \ {nukePc[t]} :
                   deviceRevokedEvents'[d] = deviceRevokedEvents[d]

C19_RevokedCallFails ==
    \A t \in Tankers :
        (tankerCall.tanker = t /\ tankerCall.op \in ReadyOperations \cup ClientOperations \cup {"revokeDevice"}) =>
            /\ LocalDeviceRevoked(t) => tankerCall.outcome = "InvalidSessionStatus"
            /\ tankerCall.status = "READY" => tankerCall.outcome = "ok"

\* C19: after its device has been revoked, every operation of the instance
\* (encrypt, decrypt, share, the group operations) fails with
\* InvalidSessionStatus; the operations of a ready instance succeed, and a
\* ready instance leaves READY only by its own stop or by the revocation of
\* its own device.
C19_RevokedInstanceFailsOthersWork ==
    [][/\ C19_RevokedCallFails'
       /\ \A t \in Tankers :
              (session[t] = "READY" /\ session'[t] # "READY") =>
                  \/ tankerCall'.tanker = t /\ tankerCall'.op = "stop"
                  \/ device[t] \in revokedDevices]_vars

C19_Witness ==
    /\ tankerCall.op = "decrypt"
    /\ tankerCall.outcome = "InvalidSessionStatus"
    /\ LocalDeviceRevoked(tankerCall.tanker)
    /\ \E o \in Tankers : session[o] = "READY" /\ device[o] \notin revokedDevices

\* the operations that need an open session
SessionOperations ==
    {"encrypt", "decrypt", "share", "getResourceId", "revokeDevice", "createGroup",
     "updateGroupMembers", "makeEncryptorStream", "makeDecryptorStream"}

\* C20: an operation that needs an open session, called while the status is
\* not READY, fails with InvalidSessionStatus and does not use the session.
C20_NotReadyFails ==
    (tankerCall.op \in SessionOperations /\ tankerCall.status # "READY") =>
        tankerCall.outcome = "InvalidSessionStatus" /\ ~tankerCall.usedSession

\* the same, getResourceId left out
C20_NotReadyFailsButGetResourceId ==
    (tankerCall.op \in SessionOperations \ {"getResourceId"} /\ tankerCall.status # "READY") =>
        tankerCall.outcome = "InvalidSessionStatus" /\ ~tankerCall.usedSession

\* C21: start() called while the status is not STOPPED fails with
\* InvalidSessionStatus and leaves the session, its status and the storage
\* as they were.
C21_StartWhenOpenIsRejected ==
    [][\A t \in Tankers :
           (/\ tankerCall'.tanker = t
            /\ tankerCall'.op = "start"
            /\ startPc[t] = "idle"
            /\ TankerStatus(t) # "STOPPED") =>
               /\ tankerCall'.outcome = "InvalidSessionStatus"
               /\ ~tankerCall'.usedSession
               /\ session' = session
               /\ storage' = storage
               /\ device' = device
               /\ startPc' = startPc]_vars

C21_Witness ==
    /\ tankerCall.op = "start"
    /\ tankerCall.outcome = "InvalidSessionStatus"
    /\ tankerCall.status = "READY"
    /\ session[tankerCall.tanker] = "READY"

PlannedRecipients ==
    {<<"key_publish_to_user_group", SharedGroupKey(g)>> :
        g \in {h \in shareResult.groups : groupStore[h].state # "Unknown"}}
    \cup {<<"key_publish_to_provisional_user", InviteeKey(p)>> : p \in shareResult.provisionals}
    \cup {<<"key_publish_to_user", getLastUserPublicKey(userStore[u])>> :
             u \in (shareResult.users \cup (IF shareResult.shareWithSelf THEN {Self} ELSE {}))
                   \cap UserIds}

PlannedBlocks ==
    {[nature |-> r[1], to |-> r[2], resourceId |-> kr.resourceId, key |-> kr.key,
      author |-> LocalDeviceId] :
        r \in PlannedRecipients, kr \in SeqToSet(shareResult.resources)}

\* C23: the key publish blocks of a call of the planner are one per pair of a
\* resource and a recipient (group, provisional identity or user), all
\* authored by the local device, and are handed to the client in exactly one
\* sendKeyPublishBlocks batch; a call that fails sends nothing.
C23_OneBatchByLocalDevice ==
    /\ shareResult.status = "ok" =>
          /\ sentBatches = 1
          /\ \A i \in 1..Len(sentBlocks) : sentBlocks[i].author = LocalDeviceId
          /\ SeqToSet(sentBlocks) = PlannedBlocks
          /\ Len(sentBlocks) = Cardinality(PlannedBlocks)
    /\ shareResult.status # "ok" => sentBatches = 0 /\ sentBlocks = <<>>

C23_Witness ==
    /\ shareResult.status = "ok"
    /\ shareResult.op = "share"
    /\ Len(shareResult.resources) = 2
    /\ Cardinality(PlannedRecipients) = 3
    /\ Len(sentBlocks) = 6
    /\ sentBatches = 1

\* C24: after a successful call of _shareResources with shareWithSelf, the
\* resource store holds the key of every resource of the call.
C24_SelfSharedKeysAreCached ==
    (shareResult.status = "ok" /\ shareResult.shareWithSelf) =>
        \A i \in 1..Len(shareResult.resources) :
            resourceKeys[shareResult.resources[i].resourceId] = shareResult.resources[i].key

C24_Witness ==
    /\ shareResult.op = "makeEncryptorStream"
    /\ shareResult.status = "ok"
    /\ shareResult.shareWithSelf
    /\ shareResult.provisionals # {}
    /\ resourceKeys[shareResult.resourceId] = shareResult.key
    /\ shareResult.key # NoKey

(***************************************************************************)
(* Encrypted streams.  A StreamEncryptor cuts what it is written into      *)
(* chunks of EncryptionSize bytes, seals chunk i under deriveKey(key, i)   *)
(* and pushes it; a StreamDecryptor is written the encrypted chunks in     *)
(* order, the header with the first, and hands the clear bytes to onData   *)
(* in blocks of BlockSize.  How the encrypted bytes travel between the two *)
(* is left out: the decryptor is written whole encrypted chunks.           *)
(***************************************************************************)
Bytes == {0, 1}

\* what one write() may carry
ClearWrites == UNION {[1..n -> Bytes] : n \in 0..MaxWrite}

\* the key of the stream resource
StreamKey == FirstKey

\* tcrypto.deriveKey
deriveKey(key, index) == <<key, index>>

\* aead.encryptAEADv2
encryptAEADv2(subKey, clearData) == [subKey |-> subKey, clearData |-> clearData]

\* aead.decryptAEADv2: the clear data, or a failure under another key
CanDecrypt(subKey, data) == data.subKey = subKey

decryptAEADv2(subKey, data) == data.clearData

RECURSIVE concatArrays(_)
concatArrays(arrays) ==
    IF arrays = <<>> THEN <<>> ELSE Head(arrays) \o concatArrays(Tail(arrays))

\* ResizerStream._pushChunks: the chunks of outputSize bytes the buffer holds
RECURSIVE pushChunks(_, _)
pushChunks(buffer, outputSize) ==
    IF Len(buffer) >= outputSize
    THEN <<SubSeq(buffer, 1, outputSize)>>
         \o pushChunks(SubSeq(buffer, outputSize + 1, Len(buffer)), outputSize)
    ELSE <<>>

\* what _pushChunks leaves in the buffer
remaining(buffer, outputSize) ==
    SubSeq(buffer, Len(buffer) - (Len(buffer) % outputSize) + 1, Len(buffer))

\* ResizerStream._pushLastChunk: the rest of the buffer, if any
pushLastChunk(buffer) == IF Len(buffer) > 0 THEN <<buffer>> ELSE <<>>

\* ResizerStream._flush
flush(buffer, outputSize) ==
    pushChunks(buffer, outputSize) \o pushLastChunk(remaining(buffer, outputSize))

\* the transform of the encryption stream that seals every chunk under the
\* first sub-key: what C25 rests on
RECURSIVE encryptChunksUnderOneKey(_, _, _)
encryptChunksUnderOneKey(chunks, key, index) ==
    IF chunks = <<>> THEN <<>>
    ELSE <<encryptAEADv2(deriveKey(key, 0), Head(chunks))>>
         \o encryptChunksUnderOneKey(Tail(chunks), key, index)

\* the transform of the encryption stream, chunk after chunk: _deriveKey
\* gives the sub-key of _index and advances it
RECURSIVE encryptChunks(_, _, _)
encryptChunks(chunks, key, index) ==
    IF chunks = <<>> THEN <<>>
    ELSE <<encryptAEADv2(deriveKey(key, index), Head(chunks))>>
         \o encryptChunks(Tail(chunks), key, index + 1)

StreamStep ==
    UNCHANGED <<userVars, groupVars, shareVars, lockVars, tankerVars, manageVars, codecVars, moreVars>>

\* StreamEncryptor.write(clearData)
EncryptorWrite ==
    \E clearData \in ClearWrites :
        /\ ~streamEncryptor.ended
        /\ Len(clearWritten) + Len(clearData) <= MaxInput
        /\ \E chunks \in {pushChunks(streamEncryptor.buffer \o clearData, EncryptionSize)} :
              /\ streamEncryptor' =
                    [streamEncryptor EXCEPT
                        !.buffer = remaining(streamEncryptor.buffer \o clearData, EncryptionSize),
                        !.index = @ + Len(chunks)]
              /\ encryptedStream' =
                    encryptedStream \o encryptChunks(chunks, StreamKey, streamEncryptor.index)
        /\ clearWritten' = clearWritten \o clearData
        /\ UNCHANGED <<streamDecryptor, clearOutput>>
        /\ StreamStep

\* StreamEncryptor.close(): the input stream ends and flushes
EncryptorClose ==
    /\ ~streamEncryptor.ended
    /\ \E chunks \in {flush(streamEncryptor.buffer, EncryptionSize)} :
          /\ streamEncryptor' =
                [buffer |-> <<>>, index |-> streamEncryptor.index + Len(chunks),
                 ended |-> TRUE]
          /\ encryptedStream' =
                encryptedStream \o encryptChunks(chunks, StreamKey, streamEncryptor.index)
    /\ UNCHANGED <<streamDecryptor, clearWritten, clearOutput>>
    /\ StreamStep

\* StreamDecryptor.write(encryptedData) with the next encrypted chunk: the
\* first write finds the key of the resource id in the header
DecryptorWrite ==
    /\ ~streamDecryptor.ended
    /\ ~streamDecryptor.failed
    /\ streamDecryptor.read < Len(encryptedStream)
    /\ \E data \in {encryptedStream[streamDecryptor.read + 1]} :
       \E key \in {IF streamDecryptor.keyPair = NoKey THEN StreamKey
                   ELSE streamDecryptor.keyPair} :
          IF CanDecrypt(deriveKey(key, streamDecryptor.index), data)
          THEN \E buffer \in {streamDecryptor.outputBuffer
                              \o decryptAEADv2(deriveKey(key, streamDecryptor.index), data)} :
                  /\ streamDecryptor' =
                        [streamDecryptor EXCEPT
                            !.keyPair = key, !.index = @ + 1, !.read = @ + 1,
                            !.outputBuffer = remaining(buffer, BlockSize)]
                  /\ clearOutput' = clearOutput \o pushChunks(buffer, BlockSize)
          ELSE /\ streamDecryptor' =
                     [streamDecryptor EXCEPT
                         !.keyPair = key, !.index = @ + 1, !.read = @ + 1,
                         !.failed = TRUE]
               /\ UNCHANGED clearOutput
    /\ UNCHANGED <<streamEncryptor, encryptedStream, clearWritten>>
    /\ StreamStep

\* StreamDecryptor.close(), once the whole encrypted stream is written
DecryptorClose ==
    /\ streamEncryptor.ended
    /\ ~streamDecryptor.ended
    /\ ~streamDecryptor.failed
    /\ streamDecryptor.read = Len(encryptedStream)
    /\ streamDecryptor' = [streamDecryptor EXCEPT !.ended = TRUE, !.outputBuffer = <<>>]
    /\ clearOutput' = clearOutput \o pushLastChunk(streamDecryptor.outputBuffer)
    /\ UNCHANGED <<streamEncryptor, encryptedStream, clearWritten>>
    /\ StreamStep

NextStream ==
    \/ EncryptorWrite
    \/ EncryptorClose
    \/ DecryptorWrite
    \/ DecryptorClose

SpecStream == Init /\ [][NextStream]_vars

(***************************************************************************)
(* The block codec.  A byte array is a sequence of numbers below 256.  The *)
(* sizes of the fields are those of the crypto library, scaled down; the   *)
(* layouts are those of payloads.js.  A serializer checks the sizes of the *)
(* fields and concatenates them; a parser is a list of field readers run   *)
(* by unserializeGeneric.  A result is [ok, value], a reader's result has  *)
(* the offset after the field as well.                                     *)
(***************************************************************************)
ZeroHash == [i \in 1..HashSize |-> 0]

KeyPublishKeySize == SymmetricKeySize + XChaChaIvSize + MacSize

SerializeFailed == [ok |-> FALSE, value |-> <<>>]

Serialized(bytes) == [ok |-> TRUE, value |-> bytes]

UnserializeFailed == [ok |-> FALSE, value |-> <<>>, newOffset |-> 0]

Unserialized(value, newOffset) == [ok |-> TRUE, value |-> value, newOffset |-> newOffset]

\* varint.encode: seven bits a byte, the low ones first, the high bit set on
\* every byte but the last
RECURSIVE varintEncode(_)
varintEncode(n) ==
    IF n < 128 THEN <<n>> ELSE <<(n % 128) + 128>> \o varintEncode(n \div 128)

\* varint.decode at offset: the number and the bytes read (newOffset holds
\* their count)
RECURSIVE varintDecode(_, _)
varintDecode(src, offset) ==
    IF offset >= Len(src) THEN UnserializeFailed
    ELSE IF src[offset + 1] < 128 THEN Unserialized(src[offset + 1], 1)
    ELSE LET rest == varintDecode(src, offset + 1)
         IN IF ~rest.ok THEN UnserializeFailed
            ELSE Unserialized((src[offset + 1] - 128) + 128 * rest.value,
                              rest.newOffset + 1)

encodeArrayLength(array) == varintEncode(Len(array))

encodeListLength(list) == varintEncode(Len(list))

getStaticArray(src, size, offset) ==
    IF offset + size > Len(src) THEN UnserializeFailed
    ELSE Unserialized(SubSeq(src, offset + 1, offset + size), offset + size)

arrayOfLength(src, length, offset) ==
    IF ~length.ok THEN UnserializeFailed
    ELSE getStaticArray(src, length.value, offset + length.newOffset)

\* getArray: the length as a varint, then the bytes
getArray(src, offset) == arrayOfLength(src, varintDecode(src, offset), offset)

\* the field readers of the parsers
Static(name, size) == [kind |-> "static", name |-> name, size |-> size]
Array(name) == [kind |-> "array", name |-> name]
Given(name, value) == [kind |-> "given", name |-> name, value |-> value]
Flag(name, mask, advance) == [kind |-> "flag", name |-> name, mask |-> mask, advance |-> advance]
Sub(name, fields) == [kind |-> "sub", name |-> name, fields |-> fields]
List(name, fields) == [kind |-> "list", name |-> name, fields |-> fields]

\* d[o] & mask, of a byte the array may not hold
ByteHasBit(src, offset, mask) ==
    offset < Len(src) /\ (src[offset + 1] \div mask) % 2 = 1

RECURSIVE unserializeGenericSub(_, _, _)
RECURSIVE unserializeElements(_, _, _, _)

\* unserializeList: the count as a varint, then the elements
unserializeListOfLength(src, fields, length, offset) ==
    IF ~length.ok THEN UnserializeFailed
    ELSE unserializeElements(src, fields, length.value, offset + length.newOffset)

unserializeList(src, fields, offset) ==
    unserializeListOfLength(src, fields, varintDecode(src, offset), offset)

unserializeField(src, field, offset) ==
    CASE field.kind = "static" -> getStaticArray(src, field.size, offset)
      [] field.kind = "array" -> getArray(src, offset)
      [] field.kind = "given" -> Unserialized(field.value, offset)
      [] field.kind = "flag" ->
            Unserialized(ByteHasBit(src, offset, field.mask), offset + field.advance)
      [] field.kind = "sub" -> unserializeGenericSub(src, field.fields, offset)
      [] field.kind = "list" -> unserializeList(src, field.fields, offset)

namedWith(name, first, rest) ==
    IF ~rest.ok THEN UnserializeFailed
    ELSE Unserialized((name :> first.value) @@ rest.value, rest.newOffset)

restOfFields(src, fields, first) ==
    IF ~first.ok THEN UnserializeFailed
    ELSE IF Len(fields) = 1 THEN Unserialized(fields[1].name :> first.value, first.newOffset)
    ELSE namedWith(fields[1].name, first,
                   unserializeGenericSub(src, Tail(fields), first.newOffset))

\* unserializeGenericSub: the readers run in order, each from the offset the
\* one before it left; the result names the value of each
unserializeGenericSub(src, fields, offset) ==
    restOfFields(src, fields, unserializeField(src, fields[1], offset))

elementsAfter(src, fields, count, first) ==
    IF ~first.ok THEN UnserializeFailed
    ELSE LET rest == unserializeElements(src, fields, count - 1, first.newOffset)
         IN IF ~rest.ok THEN UnserializeFailed
            ELSE Unserialized(<<first.value>> \o rest.value, rest.newOffset)

unserializeElements(src, fields, count, offset) ==
    IF count = 0 THEN Unserialized(<<>>, offset)
    ELSE elementsAfter(src, fields, count, unserializeGenericSub(src, fields, offset))

wholeArray(src, result) ==
    IF result.ok /\ result.newOffset = Len(src) THEN Unserialized(result.value, result.newOffset)
    ELSE UnserializeFailed

\* unserializeGeneric: the readers from offset 0; the array holds no more
unserializeGeneric(src, fields) == wholeArray(src, unserializeGenericSub(src, fields, 0))

NoUserKeyPair == [public_encryption_key |-> <<>>, encrypted_private_encryption_key |-> <<>>]

serializePrivateKey(userKey) == userKey.recipient \o userKey.key

serializeUserKeyPair(userKeyPair) ==
    userKeyPair.public_encryption_key \o userKeyPair.encrypted_private_encryption_key

serializeUserKeys(userKeys) ==
    concatArrays(<<userKeys.public_encryption_key,
                   userKeys.previous_public_encryption_key,
                   userKeys.encrypted_previous_encryption_key,
                   encodeListLength(userKeys.private_keys)>>
                 \o [i \in 1..Len(userKeys.private_keys) |->
                        serializePrivateKey(userKeys.private_keys[i])])

\* the size checks the serializers of a device creation share
validUserDevice(userDevice) ==
    /\ userDevice.last_reset = ZeroHash
    /\ Len(userDevice.ephemeral_public_signature_key) = SignaturePublicKeySize
    /\ Len(userDevice.user_id) = HashSize
    /\ Len(userDevice.delegation_signature) = SignatureSize
    /\ Len(userDevice.public_signature_key) = SignaturePublicKeySize
    /\ Len(userDevice.public_encryption_key) = EncryptionPublicKeySize

serializeUserDeviceV1(userDevice) ==
    IF ~validUserDevice(userDevice) THEN SerializeFailed
    ELSE Serialized(concatArrays(<<userDevice.ephemeral_public_signature_key,
                                   userDevice.user_id,
                                   userDevice.delegation_signature,
                                   userDevice.public_signature_key,
                                   userDevice.public_encryption_key>>))

BitOf(flag) == IF flag THEN 1 ELSE 0

\* the flags with the two bits exchanged
deviceFlagsExchanged(userDevice) ==
    <<BitOf(userDevice.is_ghost_device) * 2 + BitOf(userDevice.is_server_device)>>

\* the byte of flags of a device creation v3
deviceFlags(userDevice) ==
    <<BitOf(userDevice.is_server_device) * 2 + BitOf(userDevice.is_ghost_device)>>

serializeUserDeviceV3(userDevice) ==
    IF \/ ~validUserDevice(userDevice)
       \/ userDevice.user_key_pair = NoUserKeyPair
       \/ Len(userDevice.user_key_pair.public_encryption_key) # EncryptionPublicKeySize
       \/ Len(userDevice.user_key_pair.encrypted_private_encryption_key) # SealedKeySize
    THEN SerializeFailed
    ELSE Serialized(concatArrays(<<userDevice.ephemeral_public_signature_key,
                                   userDevice.user_id,
                                   userDevice.delegation_signature,
                                   userDevice.public_signature_key,
                                   userDevice.public_encryption_key,
                                   serializeUserKeyPair(userDevice.user_key_pair),
                                   deviceFlags(userDevice)>>))

unserializePrivateKey == <<Static("recipient", HashSize), Static("key", SealedKeySize)>>

unserializeUserKeyPair ==
    Sub("user_key_pair",
        <<Static("public_encryption_key", EncryptionPublicKeySize),
          Static("encrypted_private_encryption_key", SealedKeySize)>>)

unserializeUserKeys ==
    Sub("user_keys",
        <<Static("public_encryption_key", EncryptionPublicKeySize),
          Static("previous_public_encryption_key", EncryptionPublicKeySize),
          Static("encrypted_previous_encryption_key", SealedKeySize),
          List("private_keys", unserializePrivateKey)>>)

unserializeUserDeviceV1(src) ==
    unserializeGeneric(src,
        <<Given("last_reset", ZeroHash),
          Static("ephemeral_public_signature_key", SignaturePublicKeySize),
          Static("user_id", HashSize),
          Static("delegation_signature", SignatureSize),
          Static("public_signature_key", SignaturePublicKeySize),
          Static("public_encryption_key", EncryptionPublicKeySize),
          Given("user_key_pair", NoUserKeyPair),
          Given("is_ghost_device", FALSE),
          Given("is_server_device", FALSE),
          Given("revoked", MAX_SAFE_INTEGER)>>)

unserializeUserDeviceV3(src) ==
    unserializeGeneric(src,
        <<Given("last_reset", ZeroHash),
          Static("ephemeral_public_signature_key", SignaturePublicKeySize),
          Static("user_id", HashSize),
          Static("delegation_signature", SignatureSize),
          Static("public_signature_key", SignaturePublicKeySize),
          Static("public_encryption_key", EncryptionPublicKeySize),
          unserializeUserKeyPair,
          Flag("is_ghost_device", 1, 0),
          Flag("is_server_device", 2, 1),
          Given("revoked", MAX_SAFE_INTEGER)>>)

serializeKeyPublish(keyPublish) ==
    IF \/ Len(keyPublish.recipient) # HashSize
       \/ Len(keyPublish.resourceId) # MacSize
       \/ Len(keyPublish.key) # KeyPublishKeySize
    THEN SerializeFailed
    ELSE Serialized(concatArrays(<<keyPublish.recipient, keyPublish.resourceId,
                                   encodeArrayLength(keyPublish.key), keyPublish.key>>))

serializeKeyPublishToUser(keyPublish) ==
    IF \/ Len(keyPublish.recipient) # HashSize
       \/ Len(keyPublish.resourceId) # MacSize
       \/ Len(keyPublish.key) # SealedKeySize
    THEN SerializeFailed
    ELSE Serialized(concatArrays(<<keyPublish.recipient, keyPublish.resourceId,
                                   keyPublish.key>>))

serializeKeyPublishToUserGroup(keyPublish) ==
    IF \/ Len(keyPublish.recipient) # EncryptionPublicKeySize
       \/ Len(keyPublish.resourceId) # MacSize
       \/ Len(keyPublish.key) # SealedKeySize
    THEN SerializeFailed
    ELSE Serialized(concatArrays(<<keyPublish.recipient, keyPublish.resourceId,
                                   keyPublish.key>>))

keyOfSize(result, size) ==
    IF result.ok /\ Len(result.value.key) = size THEN result ELSE UnserializeFailed

unserializeKeyPublish(src) ==
    keyOfSize(unserializeGeneric(src, <<Static("recipient", HashSize),
                                        Static("resourceId", MacSize),
                                        Array("key")>>),
              KeyPublishKeySize)

unserializeKeyPublishToUser(src) ==
    unserializeGeneric(src, <<Static("recipient", HashSize),
                              Static("resourceId", MacSize),
                              Static("key", SealedKeySize)>>)

unserializeKeyPublishToUserGroup(src) ==
    unserializeGeneric(src, <<Static("recipient", EncryptionPublicKeySize),
                              Static("resourceId", MacSize),
                              Static("key", SealedKeySize)>>)

serializeDeviceRevocationV1(deviceRevocation) ==
    IF Len(deviceRevocation.device_id) # HashSize THEN SerializeFailed
    ELSE Serialized(deviceRevocation.device_id)

serializeDeviceRevocationV2(deviceRevocation) ==
    IF \/ Len(deviceRevocation.device_id) # HashSize
       \/ Len(deviceRevocation.user_keys.public_encryption_key) # EncryptionPublicKeySize
       \/ Len(deviceRevocation.user_keys.previous_public_encryption_key)
             # EncryptionPublicKeySize
       \/ Len(deviceRevocation.user_keys.encrypted_previous_encryption_key) # SealedKeySize
       \/ \E i \in 1..Len(deviceRevocation.user_keys.private_keys) :
             \/ Len(deviceRevocation.user_keys.private_keys[i].recipient) # HashSize
             \/ Len(deviceRevocation.user_keys.private_keys[i].key) # SealedKeySize
    THEN SerializeFailed
    ELSE Serialized(deviceRevocation.device_id
                       \o serializeUserKeys(deviceRevocation.user_keys))

deviceIdOf(result) ==
    IF result.ok THEN Unserialized([device_id |-> result.value], result.newOffset)
    ELSE UnserializeFailed

unserializeDeviceRevocationV1(src) == deviceIdOf(getStaticArray(src, HashSize, 0))

unserializeDeviceRevocationV2(src) ==
    unserializeGeneric(src, <<Static("device_id", HashSize), unserializeUserKeys>>)

serializeGroupEncryptedKey(gek) ==
    gek.public_user_encryption_key \o gek.encrypted_group_private_encryption_key

unserializeGroupEncryptedKey ==
    <<Static("public_user_encryption_key", EncryptionPublicKeySize),
      Static("encrypted_group_private_encryption_key", SealedEncryptionPrivateKeySize)>>

checkGroupEncryptedKey(key) ==
    /\ Len(key.public_user_encryption_key) = EncryptionPublicKeySize
    /\ Len(key.encrypted_group_private_encryption_key) = SealedEncryptionPrivateKeySize

serializeUserGroupCreation(userGroupCreation) ==
    IF \/ Len(userGroupCreation.public_signature_key) # SignaturePublicKeySize
       \/ Len(userGroupCreation.public_encryption_key) # EncryptionPublicKeySize
       \/ Len(userGroupCreation.encrypted_group_private_signature_key)
             # SealedSignaturePrivateKeySize
       \/ \E i \in 1..Len(userGroupCreation.encrypted_group_private_encryption_keys_for_users) :
             ~checkGroupEncryptedKey(
                 userGroupCreation.encrypted_group_private_encryption_keys_for_users[i])
       \/ Len(userGroupCreation.self_signature) # SignatureSize
    THEN SerializeFailed
    ELSE Serialized(concatArrays(
             <<userGroupCreation.public_signature_key,
               userGroupCreation.public_encryption_key,
               userGroupCreation.encrypted_group_private_signature_key,
               encodeListLength(
                   userGroupCreation.encrypted_group_private_encryption_keys_for_users)>>
             \o [i \in 1..Len(userGroupCreation.encrypted_group_private_encryption_keys_for_users)
                   |-> serializeGroupEncryptedKey(
                         userGroupCreation.encrypted_group_private_encryption_keys_for_users[i])]
             \o <<userGroupCreation.self_signature>>))

unserializeUserGroupCreation(src) ==
    unserializeGeneric(src,
        <<Static("public_signature_key", SignaturePublicKeySize),
          Static("public_encryption_key", EncryptionPublicKeySize),
          Static("encrypted_group_private_signature_key", SealedSignaturePrivateKeySize),
          List("encrypted_group_private_encryption_keys_for_users",
               unserializeGroupEncryptedKey),
          Static("self_signature", SignatureSize)>>)

\* the size of group_id is not checked
serializeUserGroupAddition(userGroupAddition) ==
    IF \/ Len(userGroupAddition.previous_group_block) # HashSize
       \/ \E i \in 1..Len(userGroupAddition.encrypted_group_private_encryption_keys_for_users) :
             ~checkGroupEncryptedKey(
                 userGroupAddition.encrypted_group_private_encryption_keys_for_users[i])
       \/ Len(userGroupAddition.self_signature_with_current_key) # SignatureSize
    THEN SerializeFailed
    ELSE Serialized(concatArrays(
             <<userGroupAddition.group_id,
               userGroupAddition.previous_group_block,
               encodeListLength(
                   userGroupAddition.encrypted_group_private_encryption_keys_for_users)>>
             \o [i \in 1..Len(userGroupAddition.encrypted_group_private_encryption_keys_for_users)
                   |-> serializeGroupEncryptedKey(
                         userGroupAddition.encrypted_group_private_encryption_keys_for_users[i])]
             \o <<userGroupAddition.self_signature_with_current_key>>))

unserializeUserGroupAddition(src) ==
    unserializeGeneric(src,
        <<Static("group_id", HashSize),
          Static("previous_group_block", HashSize),
          List("encrypted_group_private_encryption_keys_for_users",
               unserializeGroupEncryptedKey),
          Static("self_signature_with_current_key", SignatureSize)>>)

\* NATURE: the number of each nature
NATURE ==
    [device_creation_v1 |-> 2, key_publish_to_device |-> 3, device_revocation_v1 |-> 4,
     device_creation_v3 |-> 7, key_publish_to_user |-> 8, device_revocation_v2 |-> 9,
     user_group_creation |-> 10, key_publish_to_user_group |-> 11,
     user_group_addition |-> 12]

PayloadNatures == DOMAIN NATURE

\* the serializer of the payloads of a nature
serializePayload(nature, record) ==
    CASE nature = NATURE.device_creation_v1 -> serializeUserDeviceV1(record)
      [] nature = NATURE.device_creation_v3 -> serializeUserDeviceV3(record)
      [] nature = NATURE.key_publish_to_device -> serializeKeyPublish(record)
      [] nature = NATURE.key_publish_to_user -> serializeKeyPublishToUser(record)
      [] nature = NATURE.key_publish_to_user_group -> serializeKeyPublishToUserGroup(record)
      [] nature = NATURE.device_revocation_v1 -> serializeDeviceRevocationV1(record)
      [] nature = NATURE.device_revocation_v2 -> serializeDeviceRevocationV2(record)
      [] nature = NATURE.user_group_creation -> serializeUserGroupCreation(record)
      [] nature = NATURE.user_group_addition -> serializeUserGroupAddition(record)

\* unserializePayload: the parser of the nature of the block
unserializePayload(block) ==
    CASE block.nature = NATURE.device_creation_v1 -> unserializeUserDeviceV1(block.payload)
      [] block.nature = NATURE.device_creation_v3 -> unserializeUserDeviceV3(block.payload)
      [] block.nature = NATURE.key_publish_to_device -> unserializeKeyPublish(block.payload)
      [] block.nature = NATURE.key_publish_to_user ->
            unserializeKeyPublishToUser(block.payload)
      [] block.nature = NATURE.key_publish_to_user_group ->
            unserializeKeyPublishToUserGroup(block.payload)
      [] block.nature = NATURE.device_revocation_v1 ->
            unserializeDeviceRevocationV1(block.payload)
      [] block.nature = NATURE.device_revocation_v2 ->
            unserializeDeviceRevocationV2(block.payload)
      [] block.nature = NATURE.user_group_creation ->
            unserializeUserGroupCreation(block.payload)
      [] block.nature = NATURE.user_group_addition ->
            unserializeUserGroupAddition(block.payload)
      [] OTHER -> UnserializeFailed

currentVersion == 1

serializeBlock(block) ==
    IF \/ Len(block.author) # HashSize
       \/ Len(block.signature) # SignatureSize
       \/ Len(block.trustchain_id) # HashSize
    THEN SerializeFailed
    ELSE Serialized(concatArrays(<<varintEncode(currentVersion),
                                   varintEncode(block.index),
                                   block.trustchain_id,
                                   varintEncode(block.nature),
                                   encodeArrayLength(block.payload), block.payload,
                                   block.author,
                                   block.signature>>))

\* unserializeBlock, from the signature back to the version
blockOfSignature(index, trustchainId, nature, payload, author, signature) ==
    IF ~signature.ok THEN UnserializeFailed
    ELSE Unserialized([index |-> index.value, trustchain_id |-> trustchainId.value,
                       nature |-> nature.value, payload |-> payload.value,
                       author |-> author.value, signature |-> signature.value],
                      signature.newOffset)

blockOfAuthor(src, index, trustchainId, nature, payload, author) ==
    IF ~author.ok THEN UnserializeFailed
    ELSE blockOfSignature(index, trustchainId, nature, payload, author,
                          getStaticArray(src, SignatureSize, author.newOffset))

blockOfPayload(src, index, trustchainId, nature, payload) ==
    IF ~payload.ok THEN UnserializeFailed
    ELSE blockOfAuthor(src, index, trustchainId, nature, payload,
                       getStaticArray(src, HashSize, payload.newOffset))

blockOfNature(src, index, trustchainId, nature) ==
    IF ~nature.ok THEN UnserializeFailed
    ELSE blockOfPayload(src, index, trustchainId, nature,
                        getArray(src, trustchainId.newOffset + nature.newOffset))

blockOfTrustchainId(src, index, trustchainId) ==
    IF ~trustchainId.ok THEN UnserializeFailed
    ELSE blockOfNature(src, index, trustchainId,
                       varintDecode(src, trustchainId.newOffset))

blockOfIndex(src, version, index) ==
    IF ~index.ok THEN UnserializeFailed
    ELSE blockOfTrustchainId(src, index,
             getStaticArray(src, HashSize, version.newOffset + index.newOffset))

blockOfVersion(src, version) ==
    IF ~version.ok \/ version.value > currentVersion THEN UnserializeFailed
    ELSE blockOfIndex(src, version, varintDecode(src, version.newOffset))

unserializeBlock(src) == blockOfVersion(src, varintDecode(src, 0))

(***************************************************************************)
(* The records and blocks the codec is given.  Every field has its own     *)
(* bytes; a record is well formed, or one of its fields is a byte short.   *)
(***************************************************************************)
\* size bytes that tell the field (seed) and the record (variant)
Arr(size, seed, variant) == [i \in 1..size |-> (seed * 16 + variant * 7 + i) % 128]

\* the field, a byte short when it is the short one
Field(name, size, seed, variant, short) ==
    IF short = name THEN Arr(size - 1, seed, variant) ELSE Arr(size, seed, variant)

Variants == {0, 1}

UserDeviceFields ==
    {"ephemeral_public_signature_key", "user_id", "delegation_signature",
     "public_signature_key", "public_encryption_key"}

UserKeyPairOf(v, short) ==
    [public_encryption_key |->
         Field("user_key_pair.public_encryption_key", EncryptionPublicKeySize, 6, v, short),
     encrypted_private_encryption_key |->
         Field("user_key_pair.encrypted_private_encryption_key", SealedKeySize, 7, v, short)]

UserDeviceOf(v, short, userKeyPair, ghost, server) ==
    [last_reset |-> ZeroHash,
     ephemeral_public_signature_key |->
         Field("ephemeral_public_signature_key", SignaturePublicKeySize, 1, v, short),
     user_id |-> Field("user_id", HashSize, 2, v, short),
     delegation_signature |-> Field("delegation_signature", SignatureSize, 3, v, short),
     public_signature_key |-> Field("public_signature_key", SignaturePublicKeySize, 4, v, short),
     public_encryption_key |->
         Field("public_encryption_key", EncryptionPublicKeySize, 5, v, short),
     user_key_pair |-> userKeyPair,
     is_ghost_device |-> ghost,
     is_server_device |-> server,
     revoked |-> MAX_SAFE_INTEGER]

KeyPublishOf(v, short, recipientSize, keySize) ==
    [recipient |-> Field("recipient", recipientSize, 1, v, short),
     resourceId |-> Field("resourceId", MacSize, 2, v, short),
     key |-> Field("key", keySize, 3, v, short)]

PrivateKeyOf(i, v, short) ==
    [recipient |-> Field("private_keys.recipient", HashSize, 8 + i, v, short),
     key |-> Field("private_keys.key", SealedKeySize, 11 + i, v, short)]

UserKeysOf(v, short, count) ==
    [public_encryption_key |->
         Field("user_keys.public_encryption_key", EncryptionPublicKeySize, 2, v, short),
     previous_public_encryption_key |->
         Field("user_keys.previous_public_encryption_key", EncryptionPublicKeySize, 3, v,
               short),
     encrypted_previous_encryption_key |->
         Field("user_keys.encrypted_previous_encryption_key", SealedKeySize, 4, v, short),
     private_keys |-> [i \in 1..count |-> PrivateKeyOf(i, v, short)]]

GroupEncryptedKeyOf(i, v, short) ==
    [public_user_encryption_key |->
         Field("keys.public_user_encryption_key", EncryptionPublicKeySize, 8 + i, v, short),
     encrypted_group_private_encryption_key |->
         Field("keys.encrypted_group_private_encryption_key",
               SealedEncryptionPrivateKeySize, 11 + i, v, short)]

UserGroupCreationOf(v, short, count) ==
    [public_signature_key |->
         Field("public_signature_key", SignaturePublicKeySize, 1, v, short),
     public_encryption_key |->
         Field("public_encryption_key", EncryptionPublicKeySize, 2, v, short),
     encrypted_group_private_signature_key |->
         Field("encrypted_group_private_signature_key", SealedSignaturePrivateKeySize, 3, v,
               short),
     encrypted_group_private_encryption_keys_for_users |->
         [i \in 1..count |-> GroupEncryptedKeyOf(i, v, short)],
     self_signature |-> Field("self_signature", SignatureSize, 4, v, short)]

UserGroupAdditionOf(v, short, count) ==
    [group_id |-> Field("group_id", HashSize, 1, v, short),
     previous_group_block |-> Field("previous_group_block", HashSize, 2, v, short),
     encrypted_group_private_encryption_keys_for_users |->
         [i \in 1..count |-> GroupEncryptedKeyOf(i, v, short)],
     self_signature_with_current_key |->
         Field("self_signature_with_current_key", SignatureSize, 4, v, short)]

\* a payload for the codec: the record, its nature, the field that is short
PayloadInput(nature, short, record) ==
    [kind |-> "payload", nature |-> NATURE[nature], short |-> short, record |-> record,
     stage |-> "record", bytes |-> SerializeFailed, parsed |-> UnserializeFailed,
     again |-> SerializeFailed]

PayloadInputs ==
    {PayloadInput("device_creation_v1", short,
                  UserDeviceOf(v, short, NoUserKeyPair, FALSE, FALSE)) :
        v \in Variants, short \in UserDeviceFields \cup {"none"}}
    \cup
    {PayloadInput("device_creation_v3", e[2],
                  UserDeviceOf(e[1], e[2], UserKeyPairOf(e[1], e[2]), e[3], e[4])) :
        e \in Variants
               \X (UserDeviceFields
                     \cup {"none", "user_key_pair.public_encryption_key",
                           "user_key_pair.encrypted_private_encryption_key"})
               \X BOOLEAN \X BOOLEAN}
    \cup
    {PayloadInput("key_publish_to_device", short,
                  KeyPublishOf(v, short, HashSize, KeyPublishKeySize)) :
        v \in Variants, short \in {"none", "recipient", "resourceId", "key"}}
    \cup
    {PayloadInput("key_publish_to_user", short,
                  KeyPublishOf(v, short, HashSize, SealedKeySize)) :
        v \in Variants, short \in {"none", "recipient", "resourceId", "key"}}
    \cup
    {PayloadInput("key_publish_to_user_group", short,
                  KeyPublishOf(v, short, EncryptionPublicKeySize, SealedKeySize)) :
        v \in Variants, short \in {"none", "recipient", "resourceId", "key"}}
    \cup
    {PayloadInput("device_revocation_v1", short,
                  [device_id |-> Field("device_id", HashSize, 1, v, short)]) :
        v \in Variants, short \in {"none", "device_id"}}
    \cup
    {PayloadInput("device_revocation_v2", e[2],
                  [device_id |-> Field("device_id", HashSize, 1, e[1], e[2]),
                   user_keys |-> UserKeysOf(e[1], e[2], e[3])]) :
        e \in {f \in Variants
                     \X {"none", "device_id", "user_keys.public_encryption_key",
                         "user_keys.previous_public_encryption_key",
                         "user_keys.encrypted_previous_encryption_key",
                         "private_keys.recipient", "private_keys.key"}
                     \X (0..MaxListed) :
                  f[2] \in {"private_keys.recipient", "private_keys.key"} => f[3] > 0}}
    \cup
    {PayloadInput("user_group_creation", e[2], UserGroupCreationOf(e[1], e[2], e[3])) :
        e \in {f \in Variants
                     \X {"none", "public_signature_key", "public_encryption_key",
                         "encrypted_group_private_signature_key", "self_signature",
                         "keys.public_user_encryption_key",
                         "keys.encrypted_group_private_encryption_key"}
                     \X (0..MaxListed) :
                  f[2] \in {"keys.public_user_encryption_key",
                            "keys.encrypted_group_private_encryption_key"} => f[3] > 0}}
    \cup
    {PayloadInput("user_group_addition", e[2], UserGroupAdditionOf(e[1], e[2], e[3])) :
        e \in {f \in Variants
                     \X {"none", "group_id", "previous_group_block",
                         "self_signature_with_current_key",
                         "keys.public_user_encryption_key",
                         "keys.encrypted_group_private_encryption_key"}
                     \X (0..MaxListed) :
                  f[2] \in {"keys.public_user_encryption_key",
                            "keys.encrypted_group_private_encryption_key"} => f[3] > 0}}

\* the indexes of the blocks: one and two bytes as varints
BlockIndexes == {0, 127, 128, MaxBlockIndex}

\* the payloads of the blocks: none, a key publish, one whose length takes
\* two bytes
BlockPayloads ==
    {<<>>, serializeKeyPublishToUser(KeyPublishOf(0, "none", HashSize, SealedKeySize)).value,
     Arr(LongPayload, 9, 0)}

BlockInputs ==
    {[kind |-> "block", nature |-> e[2], short |-> e[4],
      record |-> [index |-> e[1],
                  trustchain_id |-> Field("trustchain_id", HashSize, 1, 0, e[4]),
                  nature |-> e[2],
                  payload |-> e[3],
                  author |-> Field("author", HashSize, 2, 0, e[4]),
                  signature |-> Field("signature", SignatureSize, 3, 0, e[4])],
      stage |-> "record", bytes |-> SerializeFailed, parsed |-> UnserializeFailed,
      again |-> SerializeFailed] :
        e \in BlockIndexes
               \X {NATURE.key_publish_to_user, NATURE.user_group_addition}
               \X BlockPayloads
               \X {"none", "trustchain_id", "author", "signature"}}

CodecInputs == PayloadInputs \cup BlockInputs

InitCodecInputs == InitStores /\ codec \in CodecInputs

\* the serializer of what the codec was given
serialize(input, record) ==
    IF input.kind = "block" THEN serializeBlock(record)
    ELSE serializePayload(input.nature, record)

\* the parser of what the codec was given
unserialize(input, bytes) ==
    IF input.kind = "block" THEN unserializeBlock(bytes)
    ELSE unserializePayload([nature |-> input.nature, payload |-> bytes])

CodecStep ==
    UNCHANGED <<userVars, groupVars, shareVars, lockVars, tankerVars, streamVars, manageVars,
                moreVars>>

\* the record is serialized
Serialize ==
    /\ codec.stage = "record"
    /\ \E bytes \in {serialize(codec, codec.record)} :
          codec' = [codec EXCEPT !.bytes = bytes,
                                 !.stage = IF bytes.ok THEN "bytes" ELSE "rejected"]
    /\ CodecStep

\* the bytes are parsed
Unserialize ==
    /\ codec.stage = "bytes"
    /\ \E parsed \in {unserialize(codec, codec.bytes.value)} :
          codec' = [codec EXCEPT !.parsed = [ok |-> parsed.ok, value |-> parsed.value],
                                 !.stage = IF parsed.ok THEN "parsed" ELSE "unparsed"]
    /\ CodecStep

\* what was parsed is serialized again
SerializeAgain ==
    /\ codec.stage = "parsed"
    /\ \E bytes \in {serialize(codec, codec.parsed.value)} :
          codec' = [codec EXCEPT !.again = bytes, !.stage = "done"]
    /\ CodecStep

NextCodec ==
    \/ Serialize
    \/ Unserialize
    \/ SerializeAgain

SpecCodec == InitCodecInputs /\ [][NextCodec]_vars

(***************************************************************************)
(* Blocks of a revoked author.  The session holds the verified first       *)
(* devices of users 1 and 2; user 2 has a second device (block 3) that its *)
(* first device revokes (block 4).  Each of the two blocks is verified or  *)
(* still queued when the session starts.  The server then hands out        *)
(* device creations, group creations and key publishes authored by the     *)
(* devices of user 2.                                                      *)
(***************************************************************************)
\* the user key a revocation v2 announces
NewUserKey(previousKey) == previousKey + Cardinality(Keys)

RevokedDevice == QueuedDevice

\* block 4: the first device of user 2 revokes the second
Revocation ==
    DeviceRevocationEntry(4, 2, 2, RevokedDevice.hash, "device_revocation_v2",
                          NewUserKey(2), 2, <<2>>)

InitAuthors ==
    \/ SessionStartFrom(<<FirstDevice(1), FirstDevice(2), RevokedDevice>>, {Revocation}, {})
    \/ SessionStartFrom(<<FirstDevice(1), FirstDevice(2), RevokedDevice, Revocation>>, {}, {})
    \/ SessionStartFrom(<<FirstDevice(1), FirstDevice(2)>>, {RevokedDevice, Revocation}, {})

CanReceiveAuthored ==
    /\ nextIndex <= MaxIndex + MaxAuthored
    /\ Cardinality(unverifiedUsers) < MaxUnverified

\* the devices of user 2 that author the blocks
Authors == {2, RevokedDevice.hash}

\* a user entry past the blocks the session started with is queued
ReceiveAuthoredEntry(entry) ==
    /\ unverifiedUsers' = unverifiedUsers \cup {entry}
    /\ nextIndex' = nextIndex + 1
    /\ userLog' = <<>>
    /\ lastResult' = NoResult
    /\ UNCHANGED <<userStore, blocks, applyCount>>
    /\ UNCHANGED <<groupVars, shareVars, lockVars, tankerVars, streamVars, manageVars, codecVars, moreVars>>

\* a device creation for user 2 by one of its devices, under the user key of
\* before or of after the revocation
RecvAuthoredDeviceCreation ==
    /\ CanReceiveAuthored
    /\ \E a \in Authors, key \in {2, NewUserKey(2)} :
          ReceiveAuthoredEntry(DeviceCreationEntry(nextIndex, 2, a, "device_creation_v3",
                                                   key, "none"))

\* a group creation by one of the devices of user 2
RecvAuthoredGroupCreation ==
    /\ nextIndex <= MaxIndex + MaxAuthored
    /\ \E a \in Authors :
          ReceiveGroupEntry(GroupEntry("user_group_creation", nextIndex, a, FirstGroup,
                                       FirstKey, Null, "none", "none"))

KeyPublishEntry(nature, index, author, recipient, tamper) ==
    [nature |-> nature, index |-> index, hash |-> index, author |-> author,
     signer |-> IF tamper = "signature" THEN Forged ELSE author,
     recipient |-> recipient, resourceId |-> index, key |-> index]

isKeyPublishToDevice(nature) == nature = "key_publish_to_device"
isKeyPublishToUser(nature) == nature = "key_publish_to_user"
isKeyPublishToUserGroup(nature) == nature = "key_publish_to_user_group"

\* the indexes at which the user holds the user public key
KeyIndexes(user, key) ==
    {i \in 1..Len(user.userPublicKeys) : user.userPublicKeys[i].userPublicKey = key}

\* userStore.findUserByUserPublicKey: the user id holding the key, or Null
findUserByUserPublicKey(store, key) ==
    IF \E u \in UserIds : KeyIndexes(store[u], key) # {}
    THEN CHOOSE u \in UserIds : KeyIndexes(store[u], key) # {}
    ELSE Null

verifyKeyPublishToDeviceEntry(store, entry) ==
    LET userId == findDeviceToUser(store, entry.recipient) IN
    IF userId = Null THEN "invalid_recipient"
    ELSE IF \E i \in 1..Len(store[userId].userPublicKeys) :
               store[userId].userPublicKeys[i].index < entry.index
    THEN "version_mismatch"
    ELSE "ok"

\* array-find: the first user key of the recipient that is the key of the
\* entry, and the first one of a higher index
supersededAt(keys, indexUserKey, entry) ==
    LET later == {i \in 1..Len(keys) : keys[i].index > indexUserKey.index} IN
    IF later = {} THEN FALSE
    ELSE entry.index > keys[CHOOSE i \in later : \A j \in later : i <= j].index

verifyKeyPublishToUserEntry(store, entry) ==
    LET userId == findUserByUserPublicKey(store, entry.recipient) IN
    IF userId = Null THEN "invalid_recipient"
    ELSE LET keys == store[userId].userPublicKeys
             found == KeyIndexes(store[userId], entry.recipient)
             indexUserKey == keys[CHOOSE i \in found : \A j \in found : i <= j]
         IN IF indexUserKey.index > entry.index THEN "invalid_user_public_key"
            ELSE IF supersededAt(keys, indexUserKey, entry) THEN "invalid_user_public_key"
            ELSE "ok"

\* key publishes to a user group are not among the entries
verifyKeyPublishEntry(store, entry, authorEntry) ==
    IF /\ ~isKeyPublishToDevice(entry.nature)
       /\ ~isKeyPublishToUser(entry.nature)
       /\ ~isKeyPublishToUserGroup(entry.nature)
    THEN "invalid_nature"
    ELSE IF ~verifySignature(entry.signer, authorEntry.devicePublicSignatureKey)
    THEN "invalid_signature"
    ELSE IF isKeyPublishToDevice(entry.nature)
    THEN verifyKeyPublishToDeviceEntry(store, entry)
    ELSE verifyKeyPublishToUserEntry(store, entry)

\* one turn of the loop of _unlockedVerifyKeyPublishes: the entry with the
\* author found for it when it verifies, nothing when it does not
verifiedKeyPublish(store, entry, authorEntry) ==
    IF authorEntry.deviceId = Null THEN <<>>
    ELSE IF verifyKeyPublishEntry(store, entry, authorEntry) # "ok" THEN <<>>
    ELSE <<[entry |-> entry, author |-> authorEntry]>>

RECURSIVE verifiedKeyPublishes(_, _)
verifiedKeyPublishes(store, entries) ==
    IF Len(entries) = 0 THEN <<>>
    ELSE verifiedKeyPublish(store, Head(entries), foundAuthor(store, Head(entries)))
            \o verifiedKeyPublishes(store, Tail(entries))

\* the key publishes of a call: one or two, to user 1 or to its device, by
\* the devices of user 2
KeyPublishKinds ==
    {<<"key_publish_to_user", FirstKey, "none">>,
     <<"key_publish_to_user", FirstKey, "signature">>,
     <<"key_publish_to_device", 1, "none">>}

KeyPublishLists ==
    {<<KeyPublishEntry(k[1], nextIndex, a, k[2], k[3])>> :
        a \in Authors, k \in KeyPublishKinds}
    \cup
    {<<KeyPublishEntry("key_publish_to_user", nextIndex, a[1], FirstKey, "none"),
       KeyPublishEntry("key_publish_to_user", nextIndex + 1, a[2], FirstKey, "none")>> :
        a \in Authors \X Authors}

\* verifyKeyPublishes(entries): the authors are verified first, then each
\* entry; an entry that fails is left out
VerifyKeyPublishes ==
    \E entries \in KeyPublishLists :
        /\ nextIndex + Len(entries) <= MaxIndex + MaxAuthored + 1
        /\ \E run \in {unlockedGetVerifiedAuthorsByHash(userStore, unverifiedUsers, <<>>,
                                                        entries)} :
              /\ \A h \in 1..MaxIndex :
                    applyCount[h] + Occurrences(run.log, h) <= MaxApply
              /\ userStore' = run.store
              /\ unverifiedUsers' = run.unverified
              /\ userLog' = run.log
              /\ applyCount' = [h \in 1..MaxIndex |->
                                   applyCount[h] + Occurrences(run.log, h)]
              /\ lastResult' = Result("verifyKeyPublishes", run)
              /\ keyPublishCall' = [entries |-> entries,
                                    verified |-> verifiedKeyPublishes(run.store, entries)]
        /\ nextIndex' = nextIndex + Len(entries)
        /\ groupAttempt' = NoAttempt
        /\ UNCHANGED <<blocks, groupStore, unverifiedGroups, groupLog, claimed>>
        /\ UNCHANGED <<shareVars, lockVars, tankerVars, streamVars, manageVars, codecVars,
                       laterVars>>

NextAuthors ==
    \/ RecvAuthoredDeviceCreation
    \/ RecvAuthoredGroupCreation
    \/ VerifyKeyPublishes
    \/ VerifyDeviceCreation
    \/ VerifyDeviceRevocation
    \/ UpdateUserStore
    \/ UpdateGroupStore

SpecAuthors == InitAuthors /\ [][NextAuthors]_vars

(***************************************************************************)
(* Device revocations.  User 2 has two devices (blocks 2 and 3): with a    *)
(* user key and both in force, with a user key and the second revoked      *)
(* (block 4), or without a user key.  The server hands out revocations of  *)
(* the devices of user 2 by either device, of both versions, with any      *)
(* previous key and any list of private keys.                              *)
(***************************************************************************)
\* the two devices of a user 2 that holds no user key
KeylessFirstDevice == DeviceCreationEntry(2, 2, RootAuthor, "device_creation_v1", NoKey, "none")
KeylessSecondDevice == DeviceCreationEntry(3, 2, 2, "device_creation_v1", NoKey, "none")

InitRevocation ==
    \/ SessionStartFrom(<<FirstDevice(1), FirstDevice(2), RevokedDevice>>, {}, {})
    \/ SessionStartFrom(<<FirstDevice(1), FirstDevice(2), RevokedDevice, Revocation>>, {}, {})
    \/ SessionStartFrom(<<FirstDevice(1), KeylessFirstDevice, KeylessSecondDevice>>, {}, {})

\* the recipients of the private keys of a revocation v2
PrivateKeyLists == {<<>>, <<2>>, <<3>>, <<2, 3>>, <<2, 2>>}

PreviousKeys == {NoKey, 2, NewUserKey(2)}

RecvAuthoredRevocation ==
    /\ CanReceiveAuthored
    /\ \E a \in Authors, t \in Authors :
          \/ ReceiveAuthoredEntry(DeviceRevocationEntry(nextIndex, 2, a, t,
                                     "device_revocation_v1", NoKey, NoKey, <<>>))
          \/ \E previous \in PreviousKeys, privateKeys \in PrivateKeyLists :
                ReceiveAuthoredEntry(DeviceRevocationEntry(nextIndex, 2, a, t,
                                        "device_revocation_v2", NewUserKey(previous),
                                        previous, privateKeys))

NextRevocation ==
    \/ RecvAuthoredRevocation
    \/ VerifyDeviceRevocation
    \/ UpdateUserStore

SpecRevocation == InitRevocation /\ [][NextRevocation]_vars

(***************************************************************************)
(* ResourceStore: the keys of the resources, one record per resource id.   *)
(* saveResourceKey awaits the datastore twice (get, then put), and other   *)
(* callers run in between.                                                 *)
(***************************************************************************)
earlierVars ==
    <<userVars, groupVars, shareVars, lockVars, tankerVars, streamVars, manageVars,
      codecVars, keyPublishCall>>

outsideResource == <<earlierVars, sessionVars, callbackVars, backpressureVars, unlockVars>>

\* what decrypt throws stands in the place of the key
DecryptionFailed == -1

\* EncryptorV1.encrypt(key, plaintext, additionalData) and its inverse
EncryptorV1encrypt(secret, data, additionalData) == [secret |-> secret, data |-> data, additionalData |-> additionalData]

EncryptorV1decrypt(secret, encrypted, additionalData) ==
    IF encrypted.secret = secret /\ encrypted.additionalData = additionalData
    THEN encrypted.data
    ELSE DecryptionFailed

\* the user secret of the store
UserSecret == 7

\* DataStore.get: RecordNotFound when the table has no record of the id
dsGet(table, id) == [RecordNotFound |-> table[id] = NoRecord, record |-> table[id]]

\* DataStore.put: the record replaces the one the table has under the id
dsPut(table, id, record) == [table EXCEPT ![id] = record]

\* findResourceKey(resourceId): undefined (0) when there is no record
findResourceKey(table, resourceId) ==
    IF dsGet(table, resourceId).RecordNotFound
    THEN 0
    ELSE EncryptorV1decrypt(UserSecret, dsGet(table, resourceId).record.b64EncryptedKey,
                            resourceId)

\* the calls of saveResourceKey begun and not yet returned, plus the records put
SavesMade ==
    Cardinality({c \in Callers : saveCall[c].pc # "idle"})
       + Cardinality({r \in StoredResourceIds : resourceTable[r] # NoRecord})

\* saveResourceKey(resourceId, key), up to its await of get
SaveResourceKey(c) ==
    /\ saveCall[c].pc = "idle"
    /\ SavesMade < MaxSaves
    /\ \E r \in StoredResourceIds, k \in StoredKeys :
          saveCall' = [saveCall EXCEPT ![c] = [pc |-> "get", resourceId |-> r, key |-> k]]
    /\ UNCHANGED <<resourceTable, storedFirst, outsideResource>>

\* get has answered: the call returns if there is a record, and goes on to
\* its await of put if there is none
SaveGet(c) ==
    /\ saveCall[c].pc = "get"
    /\ saveCall' = [saveCall EXCEPT ![c] =
                       IF dsGet(resourceTable, saveCall[c].resourceId).RecordNotFound
                       THEN [@ EXCEPT !.pc = "put"]
                       ELSE NoSaveCall]
    /\ UNCHANGED <<resourceTable, storedFirst, outsideResource>>

\* put is carried out, and the call returns
SavePut(c) ==
    /\ saveCall[c].pc = "put"
    /\ resourceTable' = dsPut(resourceTable, saveCall[c].resourceId,
                              [b64EncryptedKey |->
                                  EncryptorV1encrypt(UserSecret, saveCall[c].key,
                                                     saveCall[c].resourceId)])
    /\ storedFirst' = [storedFirst EXCEPT ![saveCall[c].resourceId] =
                          IF @ = 0 THEN saveCall[c].key ELSE @]
    /\ saveCall' = [saveCall EXCEPT ![c] = NoSaveCall]
    /\ UNCHANGED outsideResource

NextResource ==
    \/ \E c \in Callers : SaveResourceKey(c)
    \/ \E c \in Callers : SaveGet(c)
    \/ \E c \in Callers : SavePut(c)

SpecResource == Init /\ [][NextResource]_vars

(***************************************************************************)
(* The sessions of one Tanker instance.  start() awaits Session.init, and  *)
(* stop() and _nuke await the session they drop, so calls overlap: every   *)
(* session that was ever created is kept with its state, next to the       *)
(* _session field of the instance and the statusChange events emitted.     *)
(***************************************************************************)
outsideSessions == <<earlierVars, resourceVars, callbackVars, backpressureVars, unlockVars>>

\* get status, of the fields of the instance
statusOf(current, all) == IF current = 0 THEN "STOPPED" ELSE all[current].status

\* the argument of emit('statusChange', this.status)
emittedStatus(current, all) == statusOf(current, all)

\* emit('statusChange', payload), the fields of the instance being as given
emitStatusChange(payload, current, all) ==
    statusChanges' = Append(statusChanges, [payload |-> payload, status |-> statusOf(current, all)])

CanEmit == Len(statusChanges) < MaxStatusChanges

\* the sessions that Session.init has made and that are not closed or wiped
LiveSessions == {s \in 1..MaxSessions : sessions[s].state \in {"open", "closing", "wiping"}}

\* the next session Session.init makes
FreeSessions == {s \in 1..MaxSessions : sessions[s].state = "none" /\ \A r \in 1..(s - 1) : sessions[r].state # "none"}

\* start, up to its await: the status is asserted, Session.init is called
InstanceStart ==
    /\ statusOf(tankerSession, sessions) = "STOPPED"
    /\ \E s \in FreeSessions :
          sessions' = [sessions EXCEPT ![s].state = "initialising"]
    /\ UNCHANGED <<tankerSession, statusChanges, localDevice, registerPc, outsideSessions>>

\* Session.init resolves, start goes on with _setSession(session)
InstanceInit ==
    /\ CanEmit
    /\ \E s \in 1..MaxSessions :
          /\ sessions[s].state = "initialising"
          /\ sessions' = [sessions EXCEPT ![s] =
                             [state |-> "open",
                              status |-> IF localDevice THEN "READY"
                                         ELSE "IDENTITY_REGISTRATION_NEEDED"]]
          /\ tankerSession' = s
          /\ emitStatusChange(emittedStatus(s, sessions'), s, sessions')
    /\ UNCHANGED <<localDevice, registerPc, outsideSessions>>

\* registerIdentity, up to its await of session.createUser
InstanceRegisterIdentity ==
    /\ statusOf(tankerSession, sessions) = "IDENTITY_REGISTRATION_NEEDED"
    /\ registerPc = 0
    /\ registerPc' = tankerSession
    /\ UNCHANGED <<tankerSession, sessions, statusChanges, localDevice, outsideSessions>>

\* createUser resolves: the session is ready, registerIdentity emits the status
InstanceCreateUser ==
    /\ CanEmit
    /\ registerPc # 0
    /\ sessions' = [sessions EXCEPT ![registerPc].status = "READY"]
    /\ localDevice' = TRUE
    /\ registerPc' = 0
    /\ emitStatusChange(emittedStatus(tankerSession, sessions'), tankerSession, sessions')
    /\ UNCHANGED <<tankerSession, outsideSessions>>

\* _setSession(null) and the await that follows it in stop and in _nuke
dropSession(awaited) ==
    /\ tankerSession' = 0
    /\ sessions' = IF tankerSession = 0 THEN sessions
                   ELSE [sessions EXCEPT ![tankerSession].state = awaited]
    /\ emitStatusChange(emittedStatus(0, sessions'), 0, sessions')

\* stop, up to its await of session.close()
InstanceStop ==
    /\ CanEmit
    /\ dropSession("closing")
    /\ UNCHANGED <<localDevice, registerPc, outsideSessions>>

\* session.close() resolves
InstanceClose ==
    /\ \E s \in 1..MaxSessions :
          /\ sessions[s].state = "closing"
          /\ sessions' = [sessions EXCEPT ![s].state = "closed"]
    /\ UNCHANGED <<tankerSession, statusChanges, localDevice, registerPc, outsideSessions>>

\* the local user of a session that was set emits 'device_revoked': _nuke,
\* up to its await of session.nuke()
InstanceNuke ==
    /\ CanEmit
    /\ \E s \in 1..MaxSessions :
          /\ sessions[s].state = "open"
          /\ sessions[s].status = "READY"
    /\ dropSession("wiping")
    /\ UNCHANGED <<localDevice, registerPc, outsideSessions>>

\* session.nuke() resolves: the local storage is gone
InstanceNukeDone ==
    /\ \E s \in 1..MaxSessions :
          /\ sessions[s].state = "wiping"
          /\ sessions' = [sessions EXCEPT ![s].state = "wiped"]
    /\ localDevice' = FALSE
    /\ UNCHANGED <<tankerSession, statusChanges, registerPc, outsideSessions>>

NextSessions ==
    \/ InstanceStart
    \/ InstanceInit
    \/ InstanceRegisterIdentity
    \/ InstanceCreateUser
    \/ InstanceStop
    \/ InstanceClose
    \/ InstanceNuke
    \/ InstanceNukeDone

SpecSessions == Init /\ [][NextSessions]_vars

(***************************************************************************)
(* The same instance in the revision whose start() forwards the            *)
(* 'status_change' events of the session: the payload of statusChange is   *)
(* the status the session announces, and _session is assigned only after   *)
(* session.start() has resolved.                                           *)
(***************************************************************************)
\* the session changes its status and announces it; the listener that
\* start() registered emits statusChange with the announced status
announceStatus(s, status, current) ==
    /\ sessions' = [sessions EXCEPT ![s].status = status,
                                    ![s].state = IF status = "STOPPED" THEN "closed"
                                                 ELSE IF @ = "starting" THEN "started" ELSE @]
    /\ emitStatusChange(status, current, sessions')

\* start, up to its await of Session.init
ForwardingStart ==
    /\ statusOf(tankerSession, sessions) = "STOPPED"
    /\ \E s \in FreeSessions :
          sessions' = [sessions EXCEPT ![s].state = "initialising"]
    /\ UNCHANGED <<tankerSession, statusChanges, localDevice, registerPc, outsideSessions>>

\* Session.init resolves: start registers its listeners and awaits
\* session.start()
ForwardingInit ==
    /\ \E s \in 1..MaxSessions :
          /\ sessions[s].state = "initialising"
          /\ sessions' = [sessions EXCEPT ![s].state = "starting"]
    /\ UNCHANGED <<tankerSession, statusChanges, localDevice, registerPc, outsideSessions>>

\* session.start() finds out where the user stands and sets the status
ForwardingSessionStart ==
    /\ CanEmit
    /\ \E s \in 1..MaxSessions :
          /\ sessions[s].state = "starting"
          /\ announceStatus(s, IF localDevice THEN "READY"
                               ELSE "IDENTITY_REGISTRATION_NEEDED", tankerSession)
    /\ UNCHANGED <<tankerSession, localDevice, registerPc, outsideSessions>>

\* session.start() has resolved: start assigns the session
ForwardingStarted ==
    /\ \E s \in 1..MaxSessions :
          /\ sessions[s].state = "started"
          /\ sessions' = [sessions EXCEPT ![s].state = "open"]
          /\ tankerSession' = s
    /\ UNCHANGED <<statusChanges, localDevice, registerPc, outsideSessions>>

\* registerIdentity: session.createUser makes the session ready
ForwardingRegisterIdentity ==
    /\ CanEmit
    /\ statusOf(tankerSession, sessions) = "IDENTITY_REGISTRATION_NEEDED"
    /\ announceStatus(tankerSession, "READY", tankerSession)
    /\ localDevice' = TRUE
    /\ UNCHANGED <<tankerSession, registerPc, outsideSessions>>

\* stop, up to its await of session.stop()
ForwardingStop ==
    /\ tankerSession # 0
    /\ tankerSession' = 0
    /\ sessions' = [sessions EXCEPT ![tankerSession].state = "closing"]
    /\ UNCHANGED <<statusChanges, localDevice, registerPc, outsideSessions>>

\* session.stop() closes the session
ForwardingSessionStop ==
    /\ CanEmit
    /\ \E s \in 1..MaxSessions :
          /\ sessions[s].state = "closing"
          /\ announceStatus(s, "STOPPED", tankerSession)
    /\ UNCHANGED <<tankerSession, localDevice, registerPc, outsideSessions>>

NextForwarding ==
    \/ ForwardingStart
    \/ ForwardingInit
    \/ ForwardingSessionStart
    \/ ForwardingStarted
    \/ ForwardingRegisterIdentity
    \/ ForwardingStop
    \/ ForwardingSessionStop

SpecForwarding == Init /\ [][NextForwarding]_vars

(***************************************************************************)
(* The callbacks of a StreamDecryptor.  onData and onEnd may return a      *)
(* promise: a call of onData runs until the consumer completes it.  The    *)
(* caller awaits every write() before the next call.                       *)
(***************************************************************************)
outsideCallbacks == <<earlierVars, resourceVars, sessionVars, backpressureVars, unlockVars>>

\* the calls of onData that the consumer has not completed
RunningOnData == {i \in 1..Len(onDataCalls) : ~onDataCalls[i].done}

\* this._onData(data): the call is made; a callback that returns no promise
\* has completed when it returns
onData(data, returnsPromise) == Append(onDataCalls, [data |-> data, done |-> ~returnsPromise])

\* this._onEnd(): the call is made, some calls of onData still running
onEnd == Append(onEndCalls, [running |-> Cardinality({i \in 1..Len(onDataCalls') : ~onDataCalls'[i].done})])

\* _handleBufferedOutput, from the test of its loop to its next await, or to
\* its end
handleBufferedOutput(buffer, offset, index, keyPair) ==
    IF Len(buffer) - offset >= BlockSize
    THEN /\ \E returnsPromise \in BOOLEAN :
               onDataCalls' = onData(SubSeq(buffer, offset + 1, offset + BlockSize),
                                     returnsPromise)
         /\ callbackDecryptor' =
               [callbackDecryptor EXCEPT !.pc = "onData", !.outputBuffer = buffer,
                                         !.offset = offset + BlockSize,
                                         !.index = index, !.keyPair = keyPair]
    ELSE /\ callbackDecryptor' =
               [callbackDecryptor EXCEPT !.pc = "idle",
                                         !.outputBuffer = SubSeq(buffer, offset + 1, Len(buffer)),
                                         !.offset = 0,
                                         !.index = index, !.keyPair = keyPair]
         /\ UNCHANGED onDataCalls

\* write(encryptedData) of the next chunk of a stream, up to its first await
\* of onData or to its end
CallbackWrite ==
    /\ callbackDecryptor.pc = "idle"
    /\ ~callbackDecryptor.closed
    /\ callbackDecryptor.index < MaxChunksWritten
    /\ \E clearData \in ClearWrites :
       \E key \in {IF callbackDecryptor.keyPair = NoKey THEN StreamKey
                   ELSE callbackDecryptor.keyPair} :
       \E data \in {encryptAEADv2(deriveKey(StreamKey, callbackDecryptor.index), clearData)} :
          /\ Len(clearDecrypted) + Len(clearData) <= MaxInput
          /\ CanDecrypt(deriveKey(key, callbackDecryptor.index), data)
          /\ clearDecrypted' = clearDecrypted \o clearData
          /\ handleBufferedOutput(
                callbackDecryptor.outputBuffer
                   \o decryptAEADv2(deriveKey(key, callbackDecryptor.index), data),
                0, callbackDecryptor.index + 1, key)
    /\ UNCHANGED <<onEndCalls, outsideCallbacks>>

\* the consumer completes a call of onData
OnDataDone ==
    /\ \E i \in RunningOnData :
          onDataCalls' = [onDataCalls EXCEPT ![i].done = TRUE]
    /\ UNCHANGED <<callbackDecryptor, onEndCalls, clearDecrypted, outsideCallbacks>>

\* the onData that _handleBufferedOutput awaits has completed: the loop goes on
CallbackWriteResumes ==
    /\ callbackDecryptor.pc = "onData"
    /\ onDataCalls[Len(onDataCalls)].done
    /\ handleBufferedOutput(callbackDecryptor.outputBuffer, callbackDecryptor.offset,
                            callbackDecryptor.index, callbackDecryptor.keyPair)
    /\ UNCHANGED <<onEndCalls, clearDecrypted, outsideCallbacks>>

\* close(): what is left of the buffer is handed to onData, then onEnd is
\* called
CallbackClose ==
    /\ callbackDecryptor.pc = "idle"
    /\ ~callbackDecryptor.closed
    /\ IF Len(callbackDecryptor.outputBuffer) > 0
       THEN \E returnsPromise \in BOOLEAN :
               onDataCalls' = onData(callbackDecryptor.outputBuffer, returnsPromise)
       ELSE UNCHANGED onDataCalls
    /\ onEndCalls' = onEnd
    /\ callbackDecryptor' = [callbackDecryptor EXCEPT !.closed = TRUE]
    /\ UNCHANGED <<clearDecrypted, outsideCallbacks>>

NextCallbacks ==
    \/ CallbackWrite
    \/ OnDataDone
    \/ CallbackWriteResumes
    \/ CallbackClose

SpecCallbacks == Init /\ [][NextCallbacks]_vars

(***************************************************************************)
(* StreamEncryptor under back-pressure.  write() hands the clear data to   *)
(* the input stream, a Transform whose writable side holds what it cannot  *)
(* transform yet and whose readable side holds the chunks the rest of the  *)
(* pipe has not taken; a write() that the stream answers with false waits  *)
(* for 'drain'.  The encryption and the output stream are reduced to the   *)
(* consumer that takes the chunks one after the other.  Data is counted in *)
(* bytes.                                                                  *)
(***************************************************************************)
outsideBackpressure == <<earlierVars, resourceVars, sessionVars, callbackVars, unlockVars>>

\* the chunks the readable side holds before the transform is put off
ReadableHighWaterMark == 1

RECURSIVE bytesOf(_)
bytesOf(chunks) == IF chunks = <<>> THEN 0 ELSE Head(chunks) + bytesOf(Tail(chunks))

\* the chunks of EncryptionSize bytes that n bytes make
fullChunks(n) == [i \in 1..(n \div EncryptionSize) |-> EncryptionSize]

\* _transform: the chunk joins the buffer, the full chunks are pushed
transformed(stream, n) ==
    [stream EXCEPT !.buffer = (@ + n) % EncryptionSize,
                   !.readable = @ \o fullChunks(stream.buffer + n),
                   !.length = @ - n]

\* needFinish of the writable side
needFinish(stream) ==
    stream.ending /\ stream.length = 0 /\ stream.queue = <<>> /\ ~stream.finished

\* finishMaybe: the writable side finishes, _flush pushes what is left and
\* the readable side ends
finishMaybe(stream) ==
    IF needFinish(stream)
    THEN [stream EXCEPT !.finished = TRUE, !.buffer = 0, !.ended = TRUE,
                        !.readable = @ \o (IF stream.buffer > 0 THEN <<stream.buffer>> ELSE <<>>)]
    ELSE stream

\* whether afterWrite emits 'drain'
drains(stream, finished) == ~finished /\ stream.length = 0 /\ stream.needDrain

\* onDrain: every waiting promise is resolved
onDrain(promises) == [i \in 1..Len(promises) |-> "resolved"]

\* afterWrite(finished): 'drain' if the write did not finish the stream, then
\* finishMaybe
afterWrite(stream, finished) ==
    /\ encryptorInput' =
          finishMaybe([stream EXCEPT !.needDrain = @ /\ ~drains(stream, finished)])
    /\ writePromises' = IF drains(stream, finished) THEN onDrain(writePromises)
                        ELSE writePromises

\* write(clearData): the input stream takes the data and answers whether it
\* is below its high water mark; the transform runs at once when nothing is
\* being written and the readable side has room
BackpressureWrite ==
    /\ ~encryptorInput.ending
    /\ Len(writePromises) < MaxWritesMade
    /\ \E n \in 1..MaxWrite :
       \E taken \in {[encryptorInput EXCEPT
                         !.length = @ + n,
                         !.needDrain = @ \/ encryptorInput.length + n >= EncryptionSize]} :
          /\ writePromises' =
                Append(writePromises,
                       IF taken.length < EncryptionSize THEN "resolved" ELSE "waiting")
          /\ encryptorInput' =
                IF taken.queue = <<>> /\ Len(taken.readable) < ReadableHighWaterMark
                THEN [transformed(taken, n) EXCEPT !.afterWrites = @ + 1]
                ELSE [taken EXCEPT !.queue = Append(@, n)]
          /\ bytesWritten' = bytesWritten + n
    /\ UNCHANGED <<closeCall, deliveredBytes, outputEnded, outsideBackpressure>>

\* the afterWrite of a write that was transformed at once, at the next tick
BackpressureAfterWrite ==
    /\ encryptorInput.afterWrites > 0
    /\ afterWrite([encryptorInput EXCEPT !.afterWrites = @ - 1], FALSE)
    /\ UNCHANGED <<closeCall, deliveredBytes, outputEnded, bytesWritten, outsideBackpressure>>

\* the readable side has room again: the write that was put off is
\* transformed, and its afterWrite follows
BackpressureTransform ==
    /\ encryptorInput.queue # <<>>
    /\ Len(encryptorInput.readable) < ReadableHighWaterMark
    /\ \E written \in {[transformed(encryptorInput, Head(encryptorInput.queue))
                           EXCEPT !.queue = Tail(@)]} :
          afterWrite(written, needFinish(written))
    /\ UNCHANGED <<closeCall, deliveredBytes, outputEnded, bytesWritten, outsideBackpressure>>

\* the consumer takes the next chunk: it is encrypted and handed to onData
BackpressureConsume ==
    /\ encryptorInput.readable # <<>>
    /\ deliveredBytes' = deliveredBytes + Head(encryptorInput.readable)
    /\ encryptorInput' = [encryptorInput EXCEPT !.readable = Tail(@)]
    /\ UNCHANGED <<writePromises, closeCall, outputEnded, bytesWritten, outsideBackpressure>>

\* every chunk is taken and the input has ended: the output stream ends
BackpressureEnd ==
    /\ encryptorInput.ended
    /\ encryptorInput.readable = <<>>
    /\ ~outputEnded
    /\ outputEnded' = TRUE
    /\ UNCHANGED <<encryptorInput, writePromises, closeCall, deliveredBytes, bytesWritten, outsideBackpressure>>

\* close(), up to its await of the end promise: the input stream is ended
BackpressureClose ==
    /\ closeCall = "none"
    /\ closeCall' = "awaiting"
    /\ encryptorInput' = finishMaybe([encryptorInput EXCEPT !.ending = TRUE])
    /\ UNCHANGED <<writePromises, deliveredBytes, outputEnded, bytesWritten, outsideBackpressure>>

\* the end promise is resolved: close calls onEnd and resolves
BackpressureClosed ==
    /\ closeCall = "awaiting"
    /\ outputEnded
    /\ closeCall' = "resolved"
    /\ UNCHANGED <<encryptorInput, writePromises, deliveredBytes, outputEnded, bytesWritten, outsideBackpressure>>

NextBackpressure ==
    \/ BackpressureWrite
    \/ BackpressureAfterWrite
    \/ BackpressureTransform
    \/ BackpressureConsume
    \/ BackpressureEnd
    \/ BackpressureClose
    \/ BackpressureClosed

SpecBackpressure == Init /\ [][NextBackpressure]_vars

\* the ticks of the event loop run, the pipe moves the chunks and the
\* consumer drains the output
FairSpecBackpressure ==
    /\ SpecBackpressure
    /\ WF_vars(BackpressureAfterWrite)
    /\ WF_vars(BackpressureTransform)
    /\ WF_vars(BackpressureConsume)
    /\ WF_vars(BackpressureEnd)
    /\ WF_vars(BackpressureClosed)

(***************************************************************************)
(* UnlockKeys.registerUnlock.  The call reads the unlock methods of the    *)
(* local user when it begins and adds to them when it ends; in between it  *)
(* awaits the message and the client, and other calls run.                 *)
(***************************************************************************)
outsideUnlock == <<earlierVars, resourceVars, sessionVars, callbackVars, backpressureVars>>

\* _updateLocalUser(password, email)
updateLocalUser(methods, password, email) ==
    methods \cup (IF password THEN {"password"} ELSE {})
            \cup (IF email THEN {"email"} ELSE {})

\* the calls of registerUnlock begun so far
RegistrationsMade == unlockClient.createUnlockKey + unlockClient.updateUnlockKey + Cardinality({c \in Callers : unlockCall[c].pc # "idle"})

\* registerUnlock(password, email), up to its await of
\* _createUnlockKeyMessage: the first registration generates the unlock key
\* and its block
RegisterUnlock(c) ==
    /\ unlockCall[c].pc = "idle"
    /\ RegistrationsMade < MaxRegistrations
    /\ \E password \in BOOLEAN, email \in BOOLEAN :
          /\ password \/ email
          /\ unlockCall' = [unlockCall EXCEPT ![c] =
                               [pc |-> "message", password |-> password, email |-> email,
                                block |-> unlockMethods = {}]]
    /\ UNCHANGED <<unlockMethods, unlockClient, outsideUnlock>>

\* the message is made: the call awaits sendBlock if it has a block, and
\* updateUnlockKey if it has none
RegisterUnlockMessage(c) ==
    /\ unlockCall[c].pc = "message"
    /\ unlockCall' = [unlockCall EXCEPT ![c].pc =
                         IF unlockCall[c].block THEN "sendBlock" ELSE "updateUnlockKey"]
    /\ UNCHANGED <<unlockMethods, unlockClient, outsideUnlock>>

\* client.sendBlock(block) resolves: the call awaits createUnlockKey
RegisterUnlockSendBlock(c) ==
    /\ unlockCall[c].pc = "sendBlock"
    /\ unlockClient' = [unlockClient EXCEPT !.sendBlock = @ + 1]
    /\ unlockCall' = [unlockCall EXCEPT ![c].pc = "createUnlockKey"]
    /\ UNCHANGED <<unlockMethods, outsideUnlock>>

\* client.createUnlockKey(msg) or client.updateUnlockKey(msg) resolves: the
\* methods of the local user are updated and the call returns
RegisterUnlockDone(c) ==
    /\ unlockCall[c].pc \in {"createUnlockKey", "updateUnlockKey"}
    /\ unlockClient' = [unlockClient EXCEPT ![unlockCall[c].pc] = @ + 1]
    /\ unlockMethods' = updateLocalUser(unlockMethods, unlockCall[c].password,
                                        unlockCall[c].email)
    /\ unlockCall' = [unlockCall EXCEPT ![c] = NoUnlockCall]
    /\ UNCHANGED outsideUnlock

NextUnlock ==
    \/ \E c \in Callers : RegisterUnlock(c)
    \/ \E c \in Callers : RegisterUnlockMessage(c)
    \/ \E c \in Callers : RegisterUnlockSendBlock(c)
    \/ \E c \in Callers : RegisterUnlockDone(c)

SpecUnlock == Init /\ [][NextUnlock]_vars


\* the clear bytes of the encrypted chunks pushed so far, with the bytes the
\* encryptor still buffers
ClearOfEncryptedStream ==
    concatArrays([i \in 1..Len(encryptedStream) |-> encryptedStream[i].clearData])
    \o streamEncryptor.buffer

C26_LastChunkIsShort ==
    streamEncryptor.ended =>
        /\ Len(encryptedStream) >= 1
        /\ Len(encryptedStream[Len(encryptedStream)].clearData) < EncryptionSize

\* every chunk but the last is full, and no chunk is empty or too long
C26_ChunksAreFullButTheLast ==
    \A i \in 1..Len(encryptedStream) :
        /\ Len(encryptedStream[i].clearData) \in 1..EncryptionSize
        /\ i < Len(encryptedStream) => Len(encryptedStream[i].clearData) = EncryptionSize

(***************************************************************************)
(* Group management.                                                       *)
(***************************************************************************)
\* the call is createGroup or updateGroupMembers with no identity or with more
\* than MAX_GROUP_SIZE identities
SizeRejected(call) ==
    /\ call.op \in {"createGroup", "updateGroupMembers"}
    /\ call.size = 0 \/ call.size > MAX_GROUP_SIZE

\* what a call of the GroupManager can write to
ManagedStores ==
    <<userStore, unverifiedUsers, applyCount, groupStore, unverifiedGroups, groupLog,
      claimed, resourceKeys>>

\* C27: createGroup and updateGroupMembers called with an empty identity list
\* or with more than 1000 identities fail with InvalidGroupSize, and have by
\* then looked no user up, fetched no group, sent no block, synchronised
\* nothing and written to no store.
C27_InvalidSizeFailsFirst ==
    /\ [](SizeRejected(groupCall) =>
            /\ groupCall.status = "InvalidGroupSize"
            /\ groupCall.lookups = 0
            /\ groupCall.fetched = <<>>
            /\ groupCall.sent = <<>>
            /\ groupCall.syncs = 0)
    /\ [][lastResult'.op \in {"createGroup", "updateGroupMembers"}
             /\ SizeRejected(groupCall')
          => UNCHANGED ManagedStores]_vars

\* updateGroupMembers was given too many identities for a group whose blocks
\* are queued, and createGroup-sized lists have gone through
C27_Witness ==
    /\ groupCall.op = "updateGroupMembers"
    /\ groupCall.size > MAX_GROUP_SIZE
    /\ groupCall.status = "InvalidGroupSize"
    /\ \E e \in unverifiedGroups : e.group_id = groupCall.groupIds[1]
    /\ unverifiedUsers # {}


\* the requested identities the user store holds no user for
Unresolved(requested) ==
    SelectSeq(requested, LAMBDA id : id.value \notin UserIds
                                        \/ IsNullUser(userStore[id.value]))

\* the call of getUsers told of the unresolved identities, and of them only
ReportsUnresolved(call) ==
    /\ call.status = "RecipientsNotFound" <=> Unresolved(call.requested) # <<>>
    /\ call.status = "RecipientsNotFound" => call.recipientIds = Unresolved(call.requested)

\* C28: a call of getUsers (by createGroup or updateGroupMembers) fails with
\* RecipientsNotFound if and only if at least one requested identity does not
\* resolve to a user of the user store, and the recipientIds of the error are
\* exactly the requested identities that were not found.
C28_RecipientsNotFoundIffUnresolved ==
    groupCall.lookups > 0 => ReportsUnresolved(groupCall)

\* the same of the calls whose verification of the queued devices passed
C28_UnresolvedReportedAfterVerification ==
    groupCall.lookups > 0 /\ groupCall.status # "InvalidBlockError"
        => ReportsUnresolved(groupCall)

\* a user found only by the fetch, between two identities of no user
C28_ReportedWitness ==
    /\ groupCall.status = "RecipientsNotFound"
    /\ Len(groupCall.requested) = 3
    /\ Len(groupCall.recipientIds) = 2
    /\ \E i \in 1..Len(userLog) : userLog[i].hash = FirstDevice(Recipient).hash


\* the ids the call handed to _fetchGroups
FetchedIds(call) ==
    UNION {SeqToSet(call.fetched[i]) : i \in 1..Len(call.fetched)}

\* C29: findGroups does not fetch a group that is already in the group store:
\* it calls _fetchGroups (a trustchain sync and a group-store update) only
\* when some requested group id is not stored, at most once per call and only
\* for the ids that are not stored.
C29_FetchesOnlyGroupsNotStored ==
    groupCall.op = "findGroups" =>
        /\ Len(groupCall.fetched) <= 1
        /\ FetchedIds(groupCall) \cap groupCall.stored = {}

\* C29, for the groups stored as full groups: findGroups hands to _fetchGroups,
\* in one call at most, exactly the requested ids the store does not hold as a
\* full group, in the order requested; when it holds them all it fetches
\* nothing and writes to no store.
C29_FetchesAllButFullGroups ==
    /\ [](groupCall.op = "findGroups" =>
            groupCall.fetched =
                fetchCalls(SelectSeq(groupCall.groupIds,
                                     LAMBDA g : g \notin groupCall.full)))
    /\ [][lastResult'.op = "findGroups" /\ groupCall'.fetched = <<>>
          => UNCHANGED ManagedStores]_vars

\* of two groups one is held as a full group, and only the other is fetched;
\* a block of the full group is queued
C29_Witness ==
    /\ groupCall.op = "findGroups"
    /\ Len(groupCall.groupIds) = 2
    /\ Cardinality(groupCall.full) = 1
    /\ Len(groupCall.fetched) = 1
    /\ Len(groupCall.fetched[1]) = 1
    /\ \E e \in unverifiedGroups : e.group_id \in groupCall.full


\* a record or block each field of which has its size
WellFormed(input) == input.short = "none"

\* C30: for every known nature (device creation v1 and v3, device revocation
\* v1 and v2, the key publishes, group creation and addition) and for a
\* block, a well-formed record is serialized and its bytes are parsed,
\* parsing the bytes gives the record back, and serializing what was parsed
\* gives the bytes back.
C30_SerializeParseRoundTrip ==
    WellFormed(codec) =>
        /\ codec.stage \notin {"rejected", "unparsed"}
        /\ codec.stage \in {"parsed", "done"} => codec.parsed.value = codec.record
        /\ codec.stage = "done" => codec.again.ok /\ codec.again.value = codec.bytes.value

\* a device revocation v2 with a full list of private keys was serialized,
\* parsed and serialized again to the same bytes
C30_Witness ==
    /\ codec.stage = "done"
    /\ codec.kind = "payload"
    /\ codec.nature = NATURE.device_revocation_v2
    /\ Len(codec.parsed.value.user_keys.private_keys) = MaxListed
    /\ codec.again.value = codec.bytes.value
    /\ Len(codec.bytes.value) > HashSize


\* the device of the store with this id, NoDevice when there is none
StoredDevice(store, deviceId) ==
    IF findDeviceToUser(store, deviceId) = Null THEN NoDevice
    ELSE FindDeviceIn(store[findDeviceToUser(store, deviceId)], deviceId)

\* the author device was found and was not revoked before the index
AuthorInForce(authorEntry, index) ==
    authorEntry.deviceId # Null /\ authorEntry.revokedAt >= index

StoreBefore(i) == applyEntries(userStore, SubSeq(userLog', 1, i - 1))

\* C32: a device revocation whose author device was revoked before the
\* block's index is rejected: every revocation a call applies has an author
\* device whose revokedAt was not below the revocation's index.
C32_RevokedAuthorCannotRevoke ==
    [][\A i \in 1..Len(userLog') :
          isDeviceRevocation(userLog'[i].nature)
             => AuthorInForce(StoredDevice(StoreBefore(i), userLog'[i].author),
                              userLog'[i].index)]_vars

\* every device in force after the revocation has one private key, and
\* every private key is for such a device
ExactPrivateKeys(user, entry) ==
    /\ \A d \in ActiveDevices(user, entry) :
          Cardinality({k \in 1..Len(entry.private_keys) : entry.private_keys[k] = d}) = 1
    /\ \A k \in 1..Len(entry.private_keys) :
          entry.private_keys[k] \in ActiveDevices(user, entry)

\* C33: a revocation v2 is accepted only if its previous public encryption
\* key is the current user key of the user (none for a user without one)
\* and its private keys are exactly one for each device of the user in
\* force at the block's index, the revoked device excluded.
C33_V2KeysMatchUser ==
    [][\A i \in 1..Len(userLog') :
          userLog'[i].nature = "device_revocation_v2"
             => /\ userLog'[i].previous_key
                      = getLastUserPublicKey(StoreBefore(i)[userLog'[i].user_id])
                /\ ExactPrivateKeys(StoreBefore(i)[userLog'[i].user_id], userLog'[i])]_vars

\* what holds of an accepted revocation v2: the private keys are exact, and
\* the previous key is the user key of a user that holds one
C33_V2KeysMatchUserWithKey ==
    [][\A i \in 1..Len(userLog') :
          userLog'[i].nature = "device_revocation_v2"
             => /\ getLastUserPublicKey(StoreBefore(i)[userLog'[i].user_id]) # NoKey
                      => userLog'[i].previous_key
                            = getLastUserPublicKey(StoreBefore(i)[userLog'[i].user_id])
                /\ ExactPrivateKeys(StoreBefore(i)[userLog'[i].user_id], userLog'[i])]_vars


\* C34: the version of an accepted device creation matches the user keys of
\* its user: a device that an existing device adds is v3 if and only if the
\* user holds a user key, and v1 if and only if the user holds none.
C34_VersionMatchesUserKeys ==
    [][\A i \in 1..Len(userLog') :
          (isDeviceCreation(userLog'[i].nature) /\ userLog'[i].author # RootAuthor)
             => /\ userLog'[i].nature = "device_creation_v3"
                      <=> getLastUserPublicKey(StoreBefore(i)[userLog'[i].user_id]) # NoKey
                /\ userLog'[i].nature = "device_creation_v1"
                      <=> getLastUserPublicKey(StoreBefore(i)[userLog'[i].user_id]) = NoKey]_vars

\* what holds of an accepted device creation: a user that holds a user key
\* gets v3 devices only
C34_V3ForUserWithKey ==
    [][\A i \in 1..Len(userLog') :
          (isDeviceCreation(userLog'[i].nature) /\ userLog'[i].author # RootAuthor
              /\ getLastUserPublicKey(StoreBefore(i)[userLog'[i].user_id]) # NoKey)
             => userLog'[i].nature = "device_creation_v3"]_vars


\* C35: the key stored for a resource id is never overwritten: once a record
\* has been put under a resource id, findResourceKey returns the key of the
\* first record put under it, whatever calls of saveResourceKey follow or
\* were under way.
C35_FirstKeyKept ==
    \A r \in StoredResourceIds :
        storedFirst[r] # 0 => findResourceKey(resourceTable, r) = storedFirst[r]

\* what holds of the calls that do not overlap: a call that begins when
\* the resource id has a record leaves the record alone
C35_FirstKeyKeptBySequentialCalls ==
    [][\A c \in Callers, r \in StoredResourceIds :
          (saveCall[c].pc = "get" /\ saveCall[c].resourceId = r
              /\ resourceTable[r] # NoRecord
              /\ \A d \in Callers \ {c} : saveCall[d].pc = "idle")
             => resourceTable'[r] = resourceTable[r]]_vars


\* C36: at most one session of the instance is initialised and not yet
\* closed or wiped at any time, whatever the order of start, stop and the
\* revocation of the device.
C36_OneLiveSession == Cardinality(LiveSessions) <= 1

\* what holds of the instance itself: it refers to one session at most, and
\* that session is open
C36_CurrentSessionIsOpen == tankerSession # 0 => sessions[tankerSession].state = "open"


\* C37: the payload of every statusChange event emitted is the value of
\* get status at the moment of the emission.
C37_EventsTrackStatus ==
    \A i \in 1..Len(statusChanges) : statusChanges[i].payload = statusChanges[i].status

\* the events of a session that the instance was given and then dropped
\* have been emitted, each with the status of the moment
C37_SetSessionWitness ==
    /\ Len(statusChanges) >= 3
    /\ statusChanges[1].payload = "IDENTITY_REGISTRATION_NEEDED"
    /\ statusChanges[2].payload = "READY"
    /\ statusChanges[3].payload = "STOPPED"


\* the data of the calls of onData, one after the other
RECURSIVE delivered(_)
delivered(calls) == IF calls = <<>> THEN <<>> ELSE Head(calls).data \o delivered(Tail(calls))

\* C38: after awaited writes and close(), onEnd has been called exactly
\* once, and it was called when every call of onData, the one of the last
\* partial buffer included, had completed.
C38_EndAfterAllData ==
    /\ Len(onEndCalls) = (IF callbackDecryptor.closed THEN 1 ELSE 0)
    /\ \A i \in 1..Len(onEndCalls) : onEndCalls[i].running = 0

\* what holds of the calls: onEnd is called exactly once, after every call
\* of onData was made, the data handed out is the clear data in order, and
\* of the calls of onData only the last one can be running when onEnd is called
C38_AllDataCalledBeforeEnd ==
    /\ Len(onEndCalls) = (IF callbackDecryptor.closed THEN 1 ELSE 0)
    /\ callbackDecryptor.closed => delivered(onDataCalls) = clearDecrypted
    /\ \A i \in 1..Len(onEndCalls) : onEndCalls[i].running <= 1
    /\ callbackDecryptor.pc = "idle" /\ ~callbackDecryptor.closed => RunningOnData = {}


\* whether the i-th promise that write() returned is in the given state
promiseIs(i, state) == IF Len(writePromises) >= i THEN writePromises[i] = state ELSE FALSE

\* C39: once the consumer drains the output, every promise that write()
\* has returned is resolved in the end, and close() resolves only when
\* every byte written before it has been handed to onData.
C39_WritesResolveAndCloseFollowsData ==
    /\ \A i \in 1..MaxWritesMade :
          promiseIs(i, "waiting") ~> promiseIs(i, "resolved")
    /\ [](closeCall = "resolved" => deliveredBytes = bytesWritten)

\* what holds: a write() that waits is resolved unless close() is called
\* first, and close() resolves only when every byte written has been handed
\* to onData
C39_AwaitedWritesResolve ==
    /\ \A i \in 1..MaxWritesMade :
          promiseIs(i, "waiting") ~> (promiseIs(i, "resolved") \/ encryptorInput.ending)
    /\ [](closeCall = "resolved" => deliveredBytes = bytesWritten)

\* close() resolves in the end
C39_CloseResolves == (closeCall = "awaiting") ~> (closeCall = "resolved")


\* C40: whatever the order of the calls of registerUnlock of one user, the
\* unlock key block is sent at most once and createUnlockKey is called at
\* most once; every later registration calls updateUnlockKey.
C40_UnlockKeyCreatedOnce ==
    /\ unlockClient.sendBlock <= 1
    /\ unlockClient.createUnlockKey <= 1

\* what holds of the calls that do not overlap: a call that begins when a
\* method is registered generates no block and calls updateUnlockKey
C40_LaterCallsUpdate ==
    [][\A c \in Callers :
          (unlockCall[c].pc = "idle" /\ unlockCall'[c].pc = "message" /\ unlockMethods # {})
             => ~unlockCall'[c].block]_vars


=============================================================================
